---- MODULE Spec2Model ----
(***************************************************************************)
(* Model of skills/bilingual-subtitle/scripts/process.py: the bilingual    *)
(* subtitle pipeline (transcription filter, batched translation with       *)
(* per-item fallback, encoder selection and the encode fallback walk).     *)
(*                                                                         *)
(* Python strings are TLA+ strings where they are only compared (encoder   *)
(* names, option flags) and sequences of one-character strings where the   *)
(* code looks inside them (subtitle text, which is stripped).              *)
(***************************************************************************)
EXTENDS Integers, Sequences, FiniteSets, TLC

VARIABLES
    pc,                 \* position of the control thread
    system,             \* platform.system()
    \* ---- encoder selection and burn_subtitles ----
    srt_only,           \* args.srt_only
    installed_encoders, \* encoders the installed ffmpeg lists
    working_encoders,   \* installed encoders whose encode would exit 0
    bit_depth,          \* video_info['bit_depth']
    bitrate_kbps,       \* bitrate_kbps of burn_subtitles / select_encoder
    available_encoders, \* result of get_available_encoders()
    encoder,            \* first choice of select_encoder
    encoder_opts,       \* options returned with it
    fb_i,               \* index of the fallback loop in fallback_order
    invocations,        \* encode invocations so far: [enc, opts, rc]
    success,            \* return value of burn_subtitles (once it returned)
    output_written,     \* the output video exists
    exit_status,        \* exit status of the run, -1 while it runs
    calls,              \* log of select_encoder calls: arguments and result
    \* ---- translate_subtitles ----
    segments,           \* the text of each segment passed in (s['text'])
    batch_size,         \* batch_size
    texts,              \* texts
    translated,         \* translated
    tr_i,               \* i of "for i in range(0, len(texts), batch_size)"
    batch,              \* batch
    result,             \* result of translate_batch: [none, pieces]
    tr_j,               \* position of "for text in batch"
    events,             \* requests issued and delays slept, in order
    \* ---- extract_subtitles ----
    machine,            \* platform.machine()
    has_mlx,            \* import mlx_whisper succeeds
    has_torch,          \* import torch succeeds
    cuda_available,     \* torch.cuda.is_available()
    has_faster_whisper, \* from faster_whisper import WhisperModel succeeds
    word_timestamps,    \* word_timestamps
    no_speech_threshold,\* no_speech_threshold, in units of 1/ProbScale
    transcribe_calls,   \* transcribe calls made: engine and arguments
    raw_segments,       \* what the backend's transcribe returned
    ex_k,               \* position of the loop over the backend's segments
    ex_segments,        \* segments
    filtered_count,     \* filtered_count
    \* ---- main's arguments and the subtitle file (step 3) ----
    chinese_only,       \* args.chinese_only
    source_only,        \* args.source_only
    karaoke,            \* args.karaoke
    video_exists,       \* os.path.exists(args.video)
    subtitle_output,    \* suffix and extension of subtitle_output
    sub_segments,       \* segments of step 3: start, end, text, words
    translated_texts,   \* translated_texts of merge_bilingual
    sub_i,              \* position of the loop over the segments in step 3
    blocks,             \* blocks
    srt_content,        \* what write_srt wrote to the file
    parsed,             \* result of parse_srt on that content
    ass_events,         \* events of generate_karaoke_ass
    ass_content,        \* the events generate_karaoke_ass wrote to the file
    subtitle_written,   \* name of the subtitle file written, None before
    argv,               \* the flags as given on the command line
    returned            \* the functions that have returned to main, in order

burnVars == <<srt_only, installed_encoders, working_encoders, bit_depth,
              bitrate_kbps, available_encoders, encoder, encoder_opts, fb_i,
              invocations, success, output_written, exit_status>>

trVars == <<segments, batch_size, texts, translated, tr_i, batch, result,
            tr_j, events>>

exVars == <<machine, has_mlx, has_torch, cuda_available, has_faster_whisper,
            word_timestamps, no_speech_threshold, transcribe_calls,
            raw_segments, ex_k, ex_segments, filtered_count>>

subVars == <<chinese_only, source_only, karaoke, video_exists,
             subtitle_output, sub_segments, translated_texts, sub_i, blocks,
             srt_content, parsed, ass_events, ass_content,
             subtitle_written, argv, returned>>

vars == <<pc, system, burnVars, calls, trVars, exVars, subVars>>

----------------------------------------------------------------------------
(* Bounds of the model *)

\* largest number of encoders the installed ffmpeg lists in a modelled run
MaxAvail == 3
\* source bitrates 0..MaxKbps kbps are modelled, next to the 2000 default
MaxKbps == 2
\* largest number of segments passed to translate_subtitles
MaxSegs == 3
\* largest batch_size passed to translate_subtitles
MaxBatch == 3
\* largest number of segments a backend's transcribe returns
MaxRaw == 2
\* largest number of records given to write_srt on its own
MaxBlocks == 2
\* probabilities and thresholds are k/ProbScale, k in 0..ProbScale
ProbScale == 3

----------------------------------------------------------------------------
(* Values *)

None == "None"
\* the option list that comes with the None encoder
NoOpts == <<"None">>
NotYet == "NotYet"

Systems == {"Darwin", "Linux", "Windows"}

\* the candidate names get_available_encoders looks for
KnownEncoders ==
    {"hevc_nvenc", "h264_nvenc", "hevc_amf", "h264_amf", "hevc_qsv",
     "h264_qsv", "h264_videotoolbox", "hevc_videotoolbox", "libx265",
     "libx264", "libopenh264"}

BitDepths == {8, 10}

DefaultKbps == 2000

\* bitrate_kbps = (src_bitrate // 1000) if src_bitrate else 2000
kbps_of(src_bitrate) ==
    IF src_bitrate # 0 THEN src_bitrate \div 1000 ELSE DefaultKbps

\* source bitrates ffprobe may report; 0 stands for "none reported"
SrcBitrates == {0} \cup {1000 * k + 999 : k \in 0..MaxKbps}

Bitrates == {kbps_of(b) : b \in SrcBitrates}

----------------------------------------------------------------------------
(* select_encoder *)

\* f'{n}k'
kstr(n) == ToString(n) \o "k"

nvenc_opts_loose(bitrate) ==
    <<"-preset", "p4", "-b:v", kstr(bitrate),
      "-maxrate", kstr(bitrate * 2), "-bufsize", kstr(bitrate * 2)>>

\* ['-preset','p4','-b:v',bitrate_str,'-maxrate',f'{int(b*1.5)}k','-bufsize',f'{b*2}k']
nvenc_opts(bitrate) ==
    <<"-preset", "p4", "-b:v", kstr(bitrate),
      "-maxrate", kstr((bitrate * 3) \div 2), "-bufsize", kstr(bitrate * 2)>>

\* ['-b:v', bitrate_str]
plain_opts(bitrate) == <<"-b:v", kstr(bitrate)>>

\* ['-preset', p, '-b:v', bitrate_str]
preset_opts(p, bitrate) == <<"-preset", p, "-b:v", kstr(bitrate)>>

\* no branch of a group of tests returned
NoMatch == <<None, NoOpts>>

select_10bit_qsv_first(av, bitrate) ==
    IF "hevc_nvenc" \in av THEN <<"hevc_nvenc", nvenc_opts(bitrate)>>
    ELSE IF "hevc_qsv" \in av THEN <<"hevc_qsv", plain_opts(bitrate)>>
    ELSE IF "hevc_amf" \in av THEN <<"hevc_amf", plain_opts(bitrate)>>
    ELSE IF "hevc_videotoolbox" \in av
         THEN <<"hevc_videotoolbox", plain_opts(bitrate)>>
    ELSE IF "libx265" \in av
         THEN <<"libx265", preset_opts("medium", bitrate)>>
    ELSE NoMatch

\* the tests under "if bit_depth == 10"
select_10bit(av, bitrate) ==
    IF "hevc_nvenc" \in av THEN <<"hevc_nvenc", nvenc_opts(bitrate)>>
    ELSE IF "hevc_amf" \in av THEN <<"hevc_amf", plain_opts(bitrate)>>
    ELSE IF "hevc_qsv" \in av THEN <<"hevc_qsv", plain_opts(bitrate)>>
    ELSE IF "hevc_videotoolbox" \in av
         THEN <<"hevc_videotoolbox", plain_opts(bitrate)>>
    ELSE IF "libx265" \in av
         THEN <<"libx265", preset_opts("medium", bitrate)>>
    ELSE NoMatch

\* the tests under "if system == 'Darwin'"
select_darwin(av, bitrate) ==
    IF "h264_videotoolbox" \in av
         THEN <<"h264_videotoolbox", plain_opts(bitrate)>>
    ELSE IF "hevc_videotoolbox" \in av
         THEN <<"hevc_videotoolbox", plain_opts(bitrate)>>
    ELSE NoMatch

select_gpu_hevc_first(av, bd, bitrate) ==
    IF "hevc_nvenc" \in av THEN <<"hevc_nvenc", nvenc_opts(bitrate)>>
    ELSE IF "h264_nvenc" \in av /\ bd = 8
         THEN <<"h264_nvenc", nvenc_opts(bitrate)>>
    ELSE IF "h264_amf" \in av /\ bd = 8
         THEN <<"h264_amf", plain_opts(bitrate)>>
    ELSE IF "hevc_amf" \in av THEN <<"hevc_amf", plain_opts(bitrate)>>
    ELSE IF "h264_qsv" \in av /\ bd = 8
         THEN <<"h264_qsv", plain_opts(bitrate)>>
    ELSE IF "hevc_qsv" \in av THEN <<"hevc_qsv", plain_opts(bitrate)>>
    ELSE NoMatch

select_gpu_any_depth(av, bd, bitrate) ==
    IF "h264_nvenc" \in av THEN <<"h264_nvenc", nvenc_opts(bitrate)>>
    ELSE IF "hevc_nvenc" \in av THEN <<"hevc_nvenc", nvenc_opts(bitrate)>>
    ELSE IF "h264_amf" \in av THEN <<"h264_amf", plain_opts(bitrate)>>
    ELSE IF "hevc_amf" \in av THEN <<"hevc_amf", plain_opts(bitrate)>>
    ELSE IF "h264_qsv" \in av THEN <<"h264_qsv", plain_opts(bitrate)>>
    ELSE IF "hevc_qsv" \in av THEN <<"hevc_qsv", plain_opts(bitrate)>>
    ELSE NoMatch

\* the Windows/Linux GPU tests
select_gpu(av, bd, bitrate) ==
    IF "h264_nvenc" \in av /\ bd = 8
         THEN <<"h264_nvenc", nvenc_opts(bitrate)>>
    ELSE IF "hevc_nvenc" \in av THEN <<"hevc_nvenc", nvenc_opts(bitrate)>>
    ELSE IF "h264_amf" \in av /\ bd = 8
         THEN <<"h264_amf", plain_opts(bitrate)>>
    ELSE IF "hevc_amf" \in av THEN <<"hevc_amf", plain_opts(bitrate)>>
    ELSE IF "h264_qsv" \in av /\ bd = 8
         THEN <<"h264_qsv", plain_opts(bitrate)>>
    ELSE IF "hevc_qsv" \in av THEN <<"hevc_qsv", plain_opts(bitrate)>>
    ELSE NoMatch

\* the software tests
select_software(av, bitrate) ==
    IF "libx265" \in av THEN <<"libx265", preset_opts("medium", bitrate)>>
    ELSE IF "libx264" \in av
         THEN <<"libx264", preset_opts("fast", bitrate)>>
    ELSE IF "libopenh264" \in av
         THEN <<"libopenh264", plain_opts(bitrate)>>
    ELSE NoMatch

\* the first group of tests, in the order of the code, that returns
first_return(av, bd, bitrate) ==
    LET r10 == IF bd = 10 THEN select_10bit(av, bitrate) ELSE NoMatch
        rd  == IF system = "Darwin" THEN select_darwin(av, bitrate)
               ELSE NoMatch
        rg  == select_gpu(av, bd, bitrate)
        rs  == select_software(av, bitrate)
    IN  IF r10 # NoMatch THEN r10
        ELSE IF rd # NoMatch THEN rd
        ELSE IF rg # NoMatch THEN rg
        ELSE rs

select_encoder_default_x264(av, bd, bitrate) ==
    IF first_return(av, bd, bitrate) # NoMatch
    THEN first_return(av, bd, bitrate)
    ELSE <<"libx264", preset_opts("fast", bitrate)>>

select_encoder_bitrate_gate(av, bd, bitrate) ==
    IF bitrate = 0 THEN select_software(av, bitrate)
    ELSE first_return(av, bd, bitrate)

\* select_encoder(available_encoders, bit_depth, bitrate_kbps); the last
\* group's NoMatch is the final "return None, None"
select_encoder(av, bd, bitrate) == first_return(av, bd, bitrate)

----------------------------------------------------------------------------
(* Values the variables of a stage hold while another stage is modelled *)

IdleBurn ==
    /\ srt_only = FALSE
    /\ installed_encoders = {}
    /\ working_encoders = {}
    /\ bit_depth = 8
    /\ bitrate_kbps = DefaultKbps
    /\ available_encoders = {}
    /\ encoder = NotYet
    /\ encoder_opts = NoOpts
    /\ fb_i = 0
    /\ invocations = <<>>
    /\ success = FALSE
    /\ output_written = FALSE
    /\ exit_status = -1

IdleTranslate ==
    /\ segments = <<>>
    /\ batch_size = 1
    /\ texts = <<>>
    /\ translated = <<>>
    /\ tr_i = 0
    /\ batch = <<>>
    /\ result = [none |-> TRUE, pieces |-> <<>>]
    /\ tr_j = 0
    /\ events = <<>>

IdleExtract ==
    /\ machine = "x86_64"
    /\ has_mlx = FALSE
    /\ has_torch = FALSE
    /\ cuda_available = FALSE
    /\ has_faster_whisper = FALSE
    /\ word_timestamps = FALSE
    /\ no_speech_threshold = 0
    /\ transcribe_calls = <<>>
    /\ raw_segments = <<>>
    /\ ex_k = 0
    /\ ex_segments = <<>>
    /\ filtered_count = 0

\* no flag given
NoFlags ==
    [chinese_only |-> FALSE, source_only |-> FALSE, karaoke |-> FALSE,
     srt_only |-> FALSE]

IdleSub ==
    /\ chinese_only = FALSE
    /\ source_only = FALSE
    /\ karaoke = FALSE
    /\ video_exists = TRUE
    /\ subtitle_output = None
    /\ sub_segments = <<>>
    /\ translated_texts = <<>>
    /\ sub_i = 0
    /\ blocks = <<>>
    /\ srt_content = <<>>
    /\ parsed = <<>>
    /\ ass_events = <<>>
    /\ ass_content = <<>>
    /\ subtitle_written = None
    /\ argv = NoFlags
    /\ returned = <<>>

----------------------------------------------------------------------------
(* select_encoder applied to every available set, bit depth and platform,  *)
(* twice over with bitrates of its caller's choice                         *)

InitSelect ==
    /\ pc = "select_call"
    /\ system \in Systems
    /\ srt_only = FALSE
    /\ installed_encoders \in SUBSET KnownEncoders
    /\ working_encoders = {}
    /\ available_encoders = installed_encoders
    /\ bit_depth \in BitDepths
    /\ bitrate_kbps = DefaultKbps
    /\ encoder = NotYet
    /\ encoder_opts = NoOpts
    /\ fb_i = 0
    /\ invocations = <<>>
    /\ success = FALSE
    /\ output_written = FALSE
    /\ exit_status = -1
    /\ calls = <<>>
    /\ IdleTranslate
    /\ IdleExtract
    /\ IdleSub

\* encoder, encoder_opts = select_encoder(available_encoders, bit_depth, bitrate_kbps)
SelectCall ==
    /\ pc = "select_call"
    /\ Len(calls) < 2
    /\ \E b \in Bitrates :
         LET r == select_encoder(available_encoders, bit_depth, b)
         IN  /\ bitrate_kbps' = b
             /\ encoder' = r[1]
             /\ encoder_opts' = r[2]
             /\ calls' = Append(calls,
                    [available |-> available_encoders, bit_depth |-> bit_depth,
                     system |-> system, bitrate |-> b,
                     encoder |-> r[1], opts |-> r[2]])
    /\ UNCHANGED <<pc, system, srt_only, installed_encoders, working_encoders,
                   bit_depth, available_encoders, fb_i, invocations, success,
                   output_written, exit_status>>
    /\ UNCHANGED <<trVars, exVars, subVars>>

NextSelect == SelectCall

SpecSelect == InitSelect /\ [][NextSelect]_vars

----------------------------------------------------------------------------
(* burn_subtitles, from step 4 of main *)

fallback_order_gated_first(bd) ==
    IF bd = 10
    THEN <<"h264_nvenc", "hevc_nvenc", "hevc_amf", "hevc_qsv", "libx265",
           "libopenh264">>
    ELSE <<"h264_nvenc", "hevc_nvenc", "h264_amf", "hevc_amf", "libx264",
           "libx265", "libopenh264">>

\* fallback_order of burn_subtitles
fallback_order(bd) ==
    IF bd = 10
    THEN <<"hevc_nvenc", "hevc_amf", "hevc_qsv", "libx265", "libopenh264">>
    ELSE <<"h264_nvenc", "hevc_nvenc", "h264_amf", "hevc_amf", "libx264",
           "libx265", "libopenh264">>

fallback_eligible_any(c, av, enc) == c \in av

fallback_eligible_unlisted(c, av, enc) == c # enc

\* if fallback_enc in available_encoders and fallback_enc != encoder
fallback_eligible(c, av, enc) == c \in av /\ c # enc

\* result.returncode of an encode with encoder e
returncode(e) == IF e \in working_encoders THEN 0 ELSE 1

\* the sets of encoders an installed ffmpeg may list, with those that work
EncoderSets == {s \in SUBSET KnownEncoders : Cardinality(s) <= MaxAvail}

InitBurn ==
    /\ pc = "main_step4"
    /\ system \in Systems
    /\ srt_only \in BOOLEAN
    /\ installed_encoders \in EncoderSets
    /\ working_encoders \in SUBSET installed_encoders
    /\ bit_depth = 8
    /\ bitrate_kbps = DefaultKbps
    /\ available_encoders = {}
    /\ encoder = NotYet
    /\ encoder_opts = NoOpts
    /\ fb_i = 0
    /\ invocations = <<>>
    /\ success = FALSE
    /\ output_written = FALSE
    /\ exit_status = -1
    /\ calls = <<>>
    /\ IdleTranslate
    /\ IdleExtract
    /\ IdleSub

\* main: "if not args.srt_only" is false, the encode is skipped, return 0
MainSkipBurn ==
    /\ pc = "main_step4"
    /\ srt_only
    /\ exit_status' = 0
    /\ pc' = "main_exit"
    /\ UNCHANGED <<system, installed_encoders, working_encoders, srt_only,
                   bit_depth, bitrate_kbps, available_encoders, encoder,
                   encoder_opts, fb_i, invocations, success, output_written,
                   calls>>
    /\ UNCHANGED <<trVars, exVars, subVars>>

\* burn_subtitles: get_video_info and the bitrate default
BurnVideoInfo ==
    /\ pc = "main_step4"
    /\ ~srt_only
    /\ \E src \in SrcBitrates, bd \in BitDepths :
         /\ bitrate_kbps' = kbps_of(src)
         /\ bit_depth' = bd
    /\ pc' = "burn_probe"
    /\ UNCHANGED <<system, installed_encoders, working_encoders, srt_only,
                   available_encoders, encoder, encoder_opts, fb_i,
                   invocations, success, output_written, exit_status, calls>>
    /\ UNCHANGED <<trVars, exVars, subVars>>

\* burn_subtitles: get_available_encoders (a failed listing is the empty
\* set), select_encoder, and the return when there is no encoder
BurnSelect ==
    /\ pc = "burn_probe"
    /\ \E listed \in {installed_encoders, {}} :
         LET r == select_encoder(listed, bit_depth, bitrate_kbps)
         IN  /\ available_encoders' = listed
             /\ encoder' = r[1]
             /\ encoder_opts' = r[2]
             /\ IF r[1] = None
                THEN /\ success' = FALSE
                     /\ pc' = "burn_returned"
                ELSE /\ success' = success
                     /\ pc' = "burn_encode"
    /\ UNCHANGED <<system, installed_encoders, working_encoders, srt_only,
                   bit_depth, bitrate_kbps, fb_i, invocations,
                   output_written, exit_status, calls>>
    /\ UNCHANGED <<trVars, exVars, subVars>>

\* burn_subtitles: the first encode invocation
BurnEncode ==
    /\ pc = "burn_encode"
    /\ LET rc == returncode(encoder)
       IN  /\ invocations' = Append(invocations,
                  [enc |-> encoder, opts |-> encoder_opts, rc |-> rc])
           /\ IF rc = 0
              THEN /\ success' = TRUE
                   /\ output_written' = TRUE
                   /\ fb_i' = fb_i
                   /\ pc' = "burn_returned"
              ELSE /\ success' = success
                   /\ output_written' = output_written
                   /\ fb_i' = 1
                   /\ pc' = "burn_fallback"
    /\ UNCHANGED <<system, installed_encoders, working_encoders, srt_only,
                   bit_depth, bitrate_kbps, available_encoders, encoder,
                   encoder_opts, exit_status, calls>>
    /\ UNCHANGED <<trVars, exVars, subVars>>

\* burn_subtitles: one iteration of "for fallback_enc in fallback_order";
\* unpacking the options of a candidate select_encoder does not return
\* raises TypeError
BurnFallback ==
    /\ pc = "burn_fallback"
    /\ fb_i <= Len(fallback_order(bit_depth))
    /\ LET c == fallback_order(bit_depth)[fb_i]
           fallback_opts == select_encoder({c}, bit_depth, bitrate_kbps)[2]
           rc == returncode(c)
       IN  IF ~fallback_eligible(c, available_encoders, encoder)
           THEN /\ fb_i' = fb_i + 1
                /\ UNCHANGED <<pc, invocations, success, output_written,
                               exit_status>>
           ELSE IF fallback_opts = NoOpts
           THEN /\ pc' = "raised"
                /\ exit_status' = 1
                /\ UNCHANGED <<fb_i, invocations, success, output_written>>
           ELSE /\ invocations' = Append(invocations,
                       [enc |-> c, opts |-> fallback_opts, rc |-> rc])
                /\ exit_status' = exit_status
                /\ IF rc = 0
                   THEN /\ success' = TRUE
                        /\ output_written' = TRUE
                        /\ fb_i' = fb_i
                        /\ pc' = "burn_returned"
                   ELSE /\ success' = success
                        /\ output_written' = output_written
                        /\ fb_i' = fb_i + 1
                        /\ pc' = pc
    /\ UNCHANGED <<system, installed_encoders, working_encoders, srt_only,
                   bit_depth, bitrate_kbps, available_encoders, encoder,
                   encoder_opts, calls>>
    /\ UNCHANGED <<trVars, exVars, subVars>>

\* burn_subtitles: the loop is over, every candidate failed
BurnAllFailed ==
    /\ pc = "burn_fallback"
    /\ fb_i > Len(fallback_order(bit_depth))
    /\ success' = FALSE
    /\ pc' = "burn_returned"
    /\ UNCHANGED <<system, installed_encoders, working_encoders, srt_only,
                   bit_depth, bitrate_kbps, available_encoders, encoder,
                   encoder_opts, fb_i, invocations, output_written,
                   exit_status, calls>>
    /\ UNCHANGED <<trVars, exVars, subVars>>

\* main: "if not success: return 1", else the report and return 0
MainAfterBurn ==
    /\ pc = "burn_returned"
    /\ exit_status' = IF success THEN 0 ELSE 1
    /\ pc' = "main_exit"
    /\ UNCHANGED <<system, installed_encoders, working_encoders, srt_only,
                   bit_depth, bitrate_kbps, available_encoders, encoder,
                   encoder_opts, fb_i, invocations, success, output_written,
                   calls>>
    /\ UNCHANGED <<trVars, exVars, subVars>>

NextBurn ==
    \/ MainSkipBurn
    \/ BurnVideoInfo
    \/ BurnSelect
    \/ BurnEncode
    \/ BurnFallback
    \/ BurnAllFailed
    \/ MainAfterBurn

SpecBurn == InitBurn /\ [][NextBurn]_vars

----------------------------------------------------------------------------
(* Properties of select_encoder, checked under SpecSelect *)

Range(seq) == {seq[i] : i \in 1..Len(seq)}

\* the first name of a preference order that is in av, None if there is none
FirstAvailable(order, av) ==
    IF Range(order) \cap av = {} THEN None
    ELSE order[CHOOSE i \in 1..Len(order) :
                 /\ order[i] \in av
                 /\ \A j \in 1..(i - 1) : order[j] \notin av]

Hevc10Order ==
    <<"hevc_nvenc", "hevc_amf", "hevc_qsv", "hevc_videotoolbox", "libx265">>

AppleOrder == <<"h264_videotoolbox", "hevc_videotoolbox">>

GpuSoftwareOrder ==
    <<"h264_nvenc", "hevc_nvenc", "h264_amf", "hevc_amf", "h264_qsv",
      "hevc_qsv", "libx265", "libx264", "libopenh264">>

NvidiaEncoders == {"h264_nvenc", "hevc_nvenc"}

OtherHardwareEncoders ==
    {"h264_amf", "hevc_amf", "h264_qsv", "hevc_qsv", "h264_videotoolbox",
     "hevc_videotoolbox"}

SoftwareEncoders == {"libx265", "libx264", "libopenh264"}

\* C6: with bit depth 10 and one of the five HEVC encoders available,
\* select_encoder returns the first of hevc_nvenc, hevc_amf, hevc_qsv,
\* hevc_videotoolbox, libx265 that is available, on every platform and
\* whatever else is available.
C6_TenBitFirstHevc ==
    \A i \in 1..Len(calls) :
        (calls[i].bit_depth = 10
            /\ Range(Hevc10Order) \cap calls[i].available # {})
        => calls[i].encoder = FirstAvailable(Hevc10Order, calls[i].available)

C6_Witness ==
    /\ Len(calls) >= 1
    /\ calls[1].bit_depth = 10
    /\ calls[1].available = {"hevc_nvenc", "libx264"}
    /\ calls[1].encoder = "hevc_nvenc"

\* C7: with bit depth 8, select_encoder returns on Darwin h264_videotoolbox,
\* else hevc_videotoolbox, when one is available; in every other case the
\* first available of h264_nvenc, hevc_nvenc, h264_amf, hevc_amf, h264_qsv,
\* hevc_qsv, libx265, libx264, libopenh264 (None if there is none).
C7_EightBitOrder ==
    \A i \in 1..Len(calls) :
        calls[i].bit_depth = 8
        => calls[i].encoder =
             IF calls[i].system = "Darwin"
                /\ Range(AppleOrder) \cap calls[i].available # {}
             THEN FirstAvailable(AppleOrder, calls[i].available)
             ELSE FirstAvailable(GpuSoftwareOrder, calls[i].available)

C7_Witness ==
    /\ Len(calls) >= 1
    /\ calls[1].bit_depth = 8
    /\ calls[1].system = "Darwin"
    /\ calls[1].available = {"h264_videotoolbox"}
    /\ calls[1].encoder = "h264_videotoolbox"

\* the options of an NVIDIA encoder: preset, target bitrate b, maxrate
\* 1.5*b (in whole kbps) and bufsize 2*b
IsNvidiaOptions(opts, b) ==
    /\ Len(opts) = 8
    /\ opts[1] = "-preset"
    /\ opts[3] = "-b:v" /\ opts[4] = kstr(b)
    /\ opts[5] = "-maxrate" /\ opts[6] = kstr((3 * b) \div 2)
    /\ opts[7] = "-bufsize" /\ opts[8] = kstr(2 * b)

\* only the target bitrate
IsBitrateOnlyOptions(opts, b) == opts = <<"-b:v", kstr(b)>>

\* a preset plus the target bitrate
IsPresetOptions(opts, b) ==
    /\ Len(opts) = 4
    /\ opts[1] = "-preset"
    /\ opts[3] = "-b:v" /\ opts[4] = kstr(b)

\* C8 (as claimed): NVIDIA encoders get preset, bitrate, maxrate and
\* bufsize; every other hardware encoder gets only the bitrate; every
\* software encoder (libx265, libx264, libopenh264) gets a preset plus the
\* bitrate.
C8_Original ==
    \A i \in 1..Len(calls) :
        LET c == calls[i]
        IN  /\ c.encoder \in NvidiaEncoders
                => IsNvidiaOptions(c.opts, c.bitrate)
            /\ c.encoder \in OtherHardwareEncoders
                => IsBitrateOnlyOptions(c.opts, c.bitrate)
            /\ c.encoder \in SoftwareEncoders
                => IsPresetOptions(c.opts, c.bitrate)

\* C8 (amended): as claimed, except that of the software encoders only
\* libx265 and libx264 get a preset; libopenh264 gets only the bitrate.
C8_OptionsByClass ==
    \A i \in 1..Len(calls) :
        LET c == calls[i]
        IN  /\ c.encoder \in NvidiaEncoders
                => IsNvidiaOptions(c.opts, c.bitrate)
            /\ c.encoder \in OtherHardwareEncoders \cup {"libopenh264"}
                => IsBitrateOnlyOptions(c.opts, c.bitrate)
            /\ c.encoder \in {"libx265", "libx264"}
                => IsPresetOptions(c.opts, c.bitrate)

C8_Witness ==
    /\ Len(calls) = 2
    /\ calls[1].encoder = "libopenh264"
    /\ calls[1].bitrate = 1
    /\ calls[2].bitrate = DefaultKbps
    /\ calls[2].opts = <<"-b:v", "2000k">>

\* C9 (as claimed): two calls that agree on the available set, the bit
\* depth and the platform return the same encoder and the same options.
C9_Original ==
    \A i, j \in 1..Len(calls) :
        (calls[i].available = calls[j].available
            /\ calls[i].bit_depth = calls[j].bit_depth
            /\ calls[i].system = calls[j].system)
        => (calls[i].encoder = calls[j].encoder
            /\ calls[i].opts = calls[j].opts)

\* C9 (amended): two calls that agree on the available set, the bit depth
\* and the platform return the same encoder, and the same options when
\* they also agree on the bitrate.
C9_PureInFourInputs ==
    \A i, j \in 1..Len(calls) :
        (calls[i].available = calls[j].available
            /\ calls[i].bit_depth = calls[j].bit_depth
            /\ calls[i].system = calls[j].system)
        => /\ calls[i].encoder = calls[j].encoder
           /\ calls[i].bitrate = calls[j].bitrate
                => calls[i].opts = calls[j].opts

C9_Witness ==
    /\ Len(calls) = 2
    /\ calls[1].encoder = "h264_nvenc"
    /\ calls[1].bitrate = 0
    /\ calls[2].bitrate = 0
    /\ calls[2].opts = calls[1].opts

----------------------------------------------------------------------------
(* Properties of burn_subtitles, checked under SpecBurn *)

\* C4: no encoder is invoked twice in a run, no encoder is invoked after an
\* invocation that exited zero, and burn_subtitles reports success exactly
\* when some invocation exited zero.
C4_FallbackWalk ==
    /\ \A i, j \in 1..Len(invocations) :
          i < j => invocations[i].enc # invocations[j].enc
    /\ \A i \in 1..(Len(invocations) - 1) : invocations[i].rc # 0
    /\ pc \in {"burn_returned", "main_exit"}
          => (success <=>
                \E i \in 1..Len(invocations) : invocations[i].rc = 0)

C4_Witness ==
    /\ pc = "burn_returned"
    /\ Len(invocations) = 3
    /\ invocations[1].rc = 1
    /\ invocations[2].rc = 1
    /\ invocations[3].rc = 0
    /\ success

\* C5: when some available encoder would exit zero, the run produces the
\* output video and exits 0; and the run ends with a failed encode only
\* after every available encoder has been invoked and has failed.
C5_Claim ==
    (pc = "main_exit" /\ ~srt_only)
    => /\ available_encoders \cap working_encoders # {}
            => (output_written /\ exit_status = 0)
       /\ (exit_status = 1 /\ encoder # None)
            => \A e \in available_encoders :
                 \E i \in 1..Len(invocations) :
                    invocations[i].enc = e /\ invocations[i].rc # 0

\* C10: when the available set is empty (nothing installed, or the listing
\* failed), select_encoder returns None, no encode is invoked,
\* burn_subtitles returns False and the run exits with status 1.
C10_NoEncoder ==
    (pc \in {"burn_encode", "burn_fallback", "burn_returned", "main_exit",
             "raised"}
        /\ ~srt_only
        /\ available_encoders = {})
    => /\ encoder = None
       /\ invocations = <<>>
       /\ ~success
       /\ pc \in {"burn_returned", "main_exit"}
       /\ pc = "main_exit" => exit_status = 1

C10_Witness ==
    /\ pc = "main_exit"
    /\ working_encoders # {}
    /\ available_encoders = {}
    /\ encoder = None
    /\ exit_status = 1

H264Family ==
    {"h264_nvenc", "h264_amf", "h264_qsv", "h264_videotoolbox", "libx264",
     "libopenh264"}

HevcFamily == Range(Hevc10Order)

\* the H.264 encoders of the GPU tests, each tested with "bit_depth == 8"
GatedH264 == {"h264_nvenc", "h264_amf", "h264_qsv"}

\* the encoders invoked so far
Invoked == {invocations[i].enc : i \in 1..Len(invocations)}

\* select_encoder has returned for a 10-bit source
Selected10 == bit_depth = 10 /\ encoder # NotYet

\* C25 (as claimed): for a 10-bit source no H.264-family encoder is
\* selected or invoked, and with no HEVC-family encoder available the
\* selection is the no-encoder result.
C25_Original ==
    Selected10
    => /\ encoder \notin H264Family
       /\ Invoked \cap H264Family = {}
       /\ available_encoders \cap HevcFamily = {} => encoder = None

\* the H.264 encoders a 10-bit selection falls back to on this platform
\* when no HEVC-family encoder is available, in the order they are tested
Fallback10Order ==
    (IF system = "Darwin" THEN <<"h264_videotoolbox">> ELSE <<>>)
        \o <<"libx264", "libopenh264">>

\* C25 (amended): for a 10-bit source none of h264_nvenc, h264_amf and
\* h264_qsv is ever selected or invoked; an H.264-family encoder is
\* selected only when no HEVC-family encoder is available, and then it is
\* the first available of h264_videotoolbox (on Darwin), libx264 and
\* libopenh264, the no-encoder result only if none of these is available
\* either; during fallback the one H.264 encoder that can be invoked is
\* libopenh264.
C25_NoGatedH264 ==
    Selected10
    => /\ encoder \notin GatedH264
       /\ Invoked \cap GatedH264 = {}
       /\ available_encoders \cap HevcFamily # {} => encoder \in HevcFamily
       /\ available_encoders \cap HevcFamily = {}
            => encoder = FirstAvailable(Fallback10Order, available_encoders)
       /\ \A i \in 2..Len(invocations) :
             invocations[i].enc \in H264Family
             => invocations[i].enc = "libopenh264"

\* a 10-bit source with only H.264 encoders listed: libx264 is selected,
\* fails, and libopenh264 is invoked in the fallback
C25_Witness ==
    /\ Selected10
    /\ available_encoders = {"h264_nvenc", "libx264", "libopenh264"}
    /\ encoder = "libx264"
    /\ Len(invocations) = 2
    /\ invocations[2].enc = "libopenh264"

\* the first choice, every encoder invoked and every encoder select_encoder
\* returns for a set of available encoders is one of the set
FromAvailable ==
    /\ encoder \notin {NotYet, None} => encoder \in available_encoders
    /\ \A i \in 1..Len(invocations) :
          invocations[i].enc \in available_encoders
    /\ \A av \in SUBSET available_encoders :
          select_encoder(av, bit_depth, bitrate_kbps)[1] \in av \cup {None}

\* C28: every encoder select_encoder returns and every encoder
\* burn_subtitles invokes, first choice or fallback, is in the set of
\* available encoders, and that set is obtained once: no step after the
\* probe changes it.
C28_FromSingleProbe ==
    /\ []FromAvailable
    /\ [][pc # "burn_probe" => available_encoders' = available_encoders]_vars

C28_Witness ==
    /\ pc = "burn_returned"
    /\ Cardinality(available_encoders) = 3
    /\ Len(invocations) = 3
    /\ encoder = invocations[1].enc
    /\ success

\* the candidates the fallback loop can try in this run
Candidates ==
    {c \in Range(fallback_order(bit_depth)) :
        fallback_eligible(c, available_encoders, encoder)}

\* select_encoder({c}, bit_depth, bitrate_kbps)
Rederived(c) == select_encoder({c}, bit_depth, bitrate_kbps)

\* the options select_encoder gives c when it chooses c among available
\* encoders are those re-derived for c alone
AsFirstChoice(c) ==
    \A av \in {a \in SUBSET available_encoders : c \in a} :
        LET r == select_encoder(av, bit_depth, bitrate_kbps)
        IN  r[1] = c => r[2] = Rederived(c)[2]

\* C30: for every candidate c the fallback loop can try, whatever the
\* platform and the bit depth, select_encoder({c}, bit_depth, bitrate)
\* returns c itself with options that are not empty, the options it gives c
\* as a first choice; every fallback invocation is made with them, and
\* unpacking them never fails.
C30_RederivedOptions ==
    /\ pc \in {"burn_encode", "burn_fallback"}
          => \A c \in Candidates :
                /\ Rederived(c)[1] = c
                /\ Rederived(c)[2] \notin {NoOpts, <<>>}
                /\ AsFirstChoice(c)
    /\ \A j \in 2..Len(invocations) :
          invocations[j].opts = Rederived(invocations[j].enc)[2]
    /\ pc # "raised"

C30_Witness ==
    /\ pc = "burn_returned"
    /\ bit_depth = 10
    /\ system = "Darwin"
    /\ available_encoders = {"hevc_nvenc", "libx265", "libopenh264"}
    /\ Len(invocations) = 3
    /\ invocations[2].enc = "libx265"
    /\ invocations[2].opts = preset_opts("medium", bitrate_kbps)
    /\ invocations[3].enc = "libopenh264"
    /\ invocations[3].opts = plain_opts(bitrate_kbps)

\* select_encoder prefers x to y for the bit depth, bitrate and platform of
\* the run: of the two it returns x
Prefers(x, y) ==
    x # y /\ select_encoder({x, y}, bit_depth, bitrate_kbps)[1] = x

\* the encoders invoked before invocation j
TriedBefore(j) == {invocations[i].enc : i \in 1..(j - 1)}

\* C27: when a fallback candidate is invoked, no encoder that is available
\* and untried is one select_encoder prefers to it: the candidates are
\* attempted in the relative order of select_encoder's preference.
C27_FallbackFollowsPreference ==
    \A j \in 2..Len(invocations) :
        \A x \in available_encoders \ TriedBefore(j) :
            ~Prefers(x, invocations[j].enc)

----------------------------------------------------------------------------
(* Text: a Python string is a sequence of one-character strings *)

IsSpace(c) == c \in {" ", "\n"}

RECURSIVE lstrip(_)
lstrip(s) ==
    IF s = <<>> THEN s
    ELSE IF IsSpace(Head(s)) THEN lstrip(Tail(s)) ELSE s

RECURSIVE rstrip(_)
rstrip(s) ==
    IF s = <<>> THEN s
    ELSE IF IsSpace(s[Len(s)]) THEN rstrip(SubSeq(s, 1, Len(s) - 1)) ELSE s

\* str.strip()
strip(s) == rstrip(lstrip(s))

\* sep.join(list)
RECURSIVE join(_, _)
join(sep, list) ==
    IF list = <<>> THEN <<>>
    ELSE IF Len(list) = 1 THEN list[1]
    ELSE list[1] \o sep \o join(sep, Tail(list))

\* the positions at which sep occurs in s
Occurrences(s, sep) ==
    {i \in 1..(Len(s) - Len(sep) + 1) : SubSeq(s, i, i + Len(sep) - 1) = sep}

\* s.split(sep), sep not empty: from[p] is the pieces of the text t from
\* position p on, cut at the first occurrence of sep at or after p
split(s, sep) ==
    LET pieces[t \in {s}] ==
            LET from[p \in 1..(Len(t) + 1)] ==
                    LET later == {i \in Occurrences(t, sep) : i >= p}
                        i == CHOOSE x \in later : \A y \in later : x <= y
                    IN  IF later = {} THEN <<SubSeq(t, p, Len(t))>>
                        ELSE <<SubSeq(t, p, i - 1)>> \o from[i + Len(sep)]
            IN  from[1]
    IN  pieces[s]

\* [x.strip() for x in list]
strip_all(list) == [k \in 1..Len(list) |-> strip(list[k])]

Min(a, b) == IF a < b THEN a ELSE b

----------------------------------------------------------------------------
(* translate_batch, translate_single and the translation endpoint *)

\* separator = '\n###\n'
separator == <<"\n", "#", "#", "#", "\n">>

\* the token translate_batch splits the response on
split_token == <<"#", "#", "#">>

\* the endpoint's translation of one subtitle text
Tr(text) == IF text = <<>> THEN <<>> ELSE <<"T">> \o text

\* what a batch request can come to: the translation with every separator
\* kept ("ok"), with the first separator lost ("merged"), with a separator
\* too many ("extra"), or no usable response ("fail")
BatchOutcomes(b) ==
    {"ok", "extra", "fail"} \cup (IF Len(b) >= 2 THEN {"merged"} ELSE {})

\* the translated text the endpoint returns for the joined request
response_text(b, outcome) ==
    LET lines == [k \in 1..Len(b) |-> Tr(b[k])]
    IN  IF outcome = "merged"
        THEN lines[1] \o <<"\n">> \o join(separator, Tail(lines))
        ELSE IF outcome = "extra"
        THEN join(separator, lines) \o separator
        ELSE join(separator, lines)

\* translate_batch(texts): None when the request or the decoding raises,
\* else translated.split('###')
translate_batch(b, outcome) ==
    IF b = <<>> THEN [none |-> FALSE, pieces |-> b]
    ELSE IF outcome = "fail" THEN [none |-> TRUE, pieces |-> <<>>]
    ELSE [none |-> FALSE,
          pieces |-> split(response_text(b, outcome), split_token)]

batch_accepted_any_length(res, b) == ~res.none /\ res.pieces # <<>>

\* if result and len(result) == len(batch)
batch_accepted(res, b) ==
    ~res.none /\ res.pieces # <<>> /\ Len(res.pieces) = Len(b)

\* translate_single issues no request for a blank text
SingleOutcomes(text) ==
    IF strip(text) = <<>> THEN {"none"} ELSE {"ok", "fail"}

translate_single_drops_failed(text, outcome) ==
    IF strip(text) = <<>> THEN text
    ELSE IF outcome = "ok" THEN Tr(text) ELSE <<>>

\* translate_single(text): the text itself when it is blank or the
\* request fails
translate_single(text, outcome) ==
    IF strip(text) = <<>> THEN text
    ELSE IF outcome = "ok" THEN Tr(text) ELSE text

\* entries of the event log; at is the 0-based index of the first text
RequestEvent(kind, at, ts, outcome) ==
    [kind |-> kind, at |-> at, texts |-> ts, outcome |-> outcome]

SleepEvent_always_short(at, ms) ==
    [kind |-> "sleep", at |-> at, texts |-> <<>>, outcome |-> "100ms"]

\* time.sleep(0.1) and time.sleep(0.2)
SleepEvent(at, ms) ==
    [kind |-> "sleep", at |-> at, texts |-> <<>>, outcome |-> ms]

----------------------------------------------------------------------------
(* translate_subtitles *)

\* s['text'] of the segments passed in
RawTexts == {<<" ", "a">>, <<"b">>, <<" ">>}

SegmentSeqs == UNION {[1..n -> RawTexts] : n \in 0..MaxSegs}

range_step_one(i, bs) == i + 1

\* the value of i after i in "for i in range(0, len(texts), batch_size)"
range_step(i, bs) == i + bs

InitTranslate ==
    /\ pc = "tr_enter"
    /\ system = "Linux"
    /\ IdleBurn
    /\ calls = <<>>
    /\ IdleExtract
    /\ IdleSub
    /\ segments \in SegmentSeqs
    /\ batch_size \in 1..MaxBatch
    /\ texts = <<>>
    /\ translated = <<>>
    /\ tr_i = 0
    /\ batch = <<>>
    /\ result = [none |-> TRUE, pieces |-> <<>>]
    /\ tr_j = 0
    /\ events = <<>>

\* texts = [s['text'].strip() for s in segments]; translated = []
TranslateEnter ==
    /\ pc = "tr_enter"
    /\ texts' = strip_all(segments)
    /\ translated' = <<>>
    /\ tr_i' = 0
    /\ pc' = "tr_loop"
    /\ UNCHANGED <<segments, batch_size, batch, result, tr_j, events>>
    /\ UNCHANGED <<system, burnVars, calls, exVars, subVars>>

\* one iteration of the loop over the batches, up to the batch result: a
\* result of the right length is taken and the loop sleeps 0.2 s, any
\* other starts the loop over the texts of the batch
TranslateBatch ==
    /\ pc = "tr_loop"
    /\ tr_i < Len(texts)
    /\ \E b \in {SubSeq(texts, tr_i + 1, Min(tr_i + batch_size, Len(texts)))} :
         \E outcome \in BatchOutcomes(b) :
           \E res \in {translate_batch(b, outcome)} :
             LET req == RequestEvent("batch", tr_i, b, outcome)
             IN  /\ batch' = b
                 /\ result' = res
                 /\ IF batch_accepted(res, b)
                    THEN /\ translated' = translated \o strip_all(res.pieces)
                         /\ events' = events \o <<req, SleepEvent(tr_i, "200ms")>>
                         /\ tr_i' = range_step(tr_i, batch_size)
                         /\ tr_j' = tr_j
                         /\ pc' = "tr_loop"
                    ELSE /\ translated' = translated
                         /\ events' = Append(events, req)
                         /\ tr_i' = tr_i
                         /\ tr_j' = 1
                         /\ pc' = "tr_single"
    /\ UNCHANGED <<segments, batch_size, texts>>
    /\ UNCHANGED <<system, burnVars, calls, exVars, subVars>>

\* one iteration of "for text in batch": translate_single, then 0.1 s
TranslateSingle ==
    /\ pc = "tr_single"
    /\ tr_j <= Len(batch)
    /\ LET text == batch[tr_j]
           at == tr_i + tr_j - 1
       IN  \E outcome \in SingleOutcomes(text) :
             /\ translated' = Append(translated, translate_single(text, outcome))
             /\ events' =
                  (IF outcome = "none" THEN events
                   ELSE Append(events,
                               RequestEvent("single", at, <<text>>, outcome)))
                  \o <<SleepEvent(at, "100ms")>>
    /\ tr_j' = tr_j + 1
    /\ UNCHANGED <<segments, batch_size, texts, tr_i, batch, result, pc>>
    /\ UNCHANGED <<system, burnVars, calls, exVars, subVars>>

\* the texts of the batch are done: 0.2 s, next batch
TranslateSingleDone ==
    /\ pc = "tr_single"
    /\ tr_j > Len(batch)
    /\ events' = Append(events, SleepEvent(tr_i, "200ms"))
    /\ tr_i' = range_step(tr_i, batch_size)
    /\ pc' = "tr_loop"
    /\ UNCHANGED <<segments, batch_size, texts, translated, batch, result,
                   tr_j>>
    /\ UNCHANGED <<system, burnVars, calls, exVars, subVars>>

\* return translated
TranslateReturn ==
    /\ pc = "tr_loop"
    /\ tr_i >= Len(texts)
    /\ pc' = "tr_returned"
    /\ UNCHANGED <<system, burnVars, calls, trVars, exVars, subVars>>

NextTranslate ==
    \/ TranslateEnter
    \/ TranslateBatch
    \/ TranslateSingle
    \/ TranslateSingleDone
    \/ TranslateReturn

SpecTranslate == InitTranslate /\ [][NextTranslate]_vars

\* translate_subtitles when every request returns or fails (urlopen is
\* called with a timeout) and every sleep ends: the one thread takes its
\* next step
FairTranslate == SpecTranslate /\ WF_vars(NextTranslate)

----------------------------------------------------------------------------
(* extract_subtitles *)

\* (platform.system(), platform.machine())
Platforms ==
    {<<"Darwin", "arm64">>, <<"Darwin", "x86_64">>, <<"Linux", "x86_64">>,
     <<"Windows", "AMD64">>}

\* a segment without the key no_speech_prob
Absent == -1

Probs == 0..ProbScale

\* the segments a backend returns: start (their order), no_speech_prob
\* (a mlx-whisper segment is a dict that may lack the key) and whether
\* they carry words, which they can when word timestamps were asked for
RawSegment(engine, wt) ==
    [start : {0},
     no_speech_prob : Probs \cup (IF engine = "mlx" THEN {Absent} ELSE {}),
     words : IF wt THEN BOOLEAN ELSE {FALSE}]

RawSeqs(engine, wt) ==
    UNION {{[k \in 1..n |-> [f[k] EXCEPT !.start = k]] :
               f \in [1..n -> RawSegment(engine, wt)]} : n \in 0..MaxRaw}

\* seg.get('no_speech_prob', 0) and s.no_speech_prob
prob_of(seg) ==
    IF seg.no_speech_prob = Absent THEN 0 ELSE seg.no_speech_prob

is_non_speech_at_threshold(p, threshold) == p >= threshold

\* if ... no_speech_prob > no_speech_threshold
is_non_speech(p, threshold) == p > threshold

\* the dict built from a faster-whisper segment
fw_segment(s, wt) ==
    [start |-> s.start, no_speech_prob |-> Absent, words |-> wt /\ s.words]

\* the segment appended for a backend segment that is kept
kept_segment(engine, s, wt) ==
    IF engine = "mlx" THEN s ELSE fw_segment(s, wt)

\* the arguments of the transcribe call of each engine
transcribe_call(engine, wt) ==
    IF engine = "mlx"
    THEN [engine |-> engine, word_timestamps |-> wt, vad_filter |-> FALSE,
          min_silence_duration_ms |-> 0]
    ELSE [engine |-> engine, word_timestamps |-> wt, vad_filter |-> TRUE,
          min_silence_duration_ms |-> 500]

\* the engine whose segments are filtered
engine_used == transcribe_calls[Len(transcribe_calls)].engine

\* how building a WhisperModel and calling transcribe can end; an
\* ImportError is caught by the except clause around them, any other
\* exception leaves extract_subtitles
BackendOutcomes(engine) ==
    {"returns", "transcribe_raises", "transcribe_import_error"}
    \cup (IF engine = "mlx" THEN {}
          ELSE {"construct_raises", "construct_import_error"})

InitExtract ==
    /\ pc = "ex_apple"
    /\ \E p \in Platforms : system = p[1] /\ machine = p[2]
    /\ IdleBurn
    /\ calls = <<>>
    /\ IdleTranslate
    /\ IdleSub
    /\ has_mlx \in BOOLEAN
    /\ has_torch \in BOOLEAN
    /\ cuda_available \in (IF has_torch THEN BOOLEAN ELSE {FALSE})
    /\ has_faster_whisper \in BOOLEAN
    /\ word_timestamps \in BOOLEAN
    /\ no_speech_threshold \in Probs
    /\ transcribe_calls = <<>>
    /\ raw_segments = <<>>
    /\ ex_k = 0
    /\ ex_segments = <<>>
    /\ filtered_count = 0

\* the engine is built and transcribe is called; next is where control goes
\* after an ImportError
RunBackend(engine, next) ==
    \E outcome \in BackendOutcomes(engine) :
       /\ transcribe_calls' =
            IF outcome \in {"construct_raises", "construct_import_error"}
            THEN transcribe_calls
            ELSE Append(transcribe_calls,
                        transcribe_call(engine, word_timestamps))
       /\ IF outcome = "returns"
          THEN /\ raw_segments' \in RawSeqs(engine, word_timestamps)
               /\ ex_k' = 1
               /\ pc' = "ex_filter"
               /\ exit_status' = exit_status
          ELSE IF outcome \in {"construct_raises", "transcribe_raises"}
          THEN /\ pc' = "raised"
               /\ exit_status' = 1
               /\ UNCHANGED <<raw_segments, ex_k>>
          ELSE /\ pc' = next
               /\ UNCHANGED <<raw_segments, ex_k, exit_status>>

exEnv == <<machine, has_mlx, has_torch, cuda_available, has_faster_whisper,
           word_timestamps, no_speech_threshold>>

exRest == <<system, srt_only, installed_encoders, working_encoders,
            bit_depth, bitrate_kbps, available_encoders, encoder,
            encoder_opts, fb_i, invocations, success, output_written, calls,
            trVars, subVars>>

\* priority 1: Apple Silicon with mlx_whisper installed
ExtractMlx ==
    /\ pc = "ex_apple"
    /\ system = "Darwin" /\ machine = "arm64"
    /\ has_mlx
    /\ RunBackend("mlx", "ex_cuda")
    /\ UNCHANGED <<exEnv, ex_segments, filtered_count, exRest>>

\* priority 1 does not apply, or import mlx_whisper raises ImportError
ExtractSkipMlx ==
    /\ pc = "ex_apple"
    /\ ~(system = "Darwin" /\ machine = "arm64" /\ has_mlx)
    /\ pc' = "ex_cuda"
    /\ UNCHANGED <<exEnv, transcribe_calls, raw_segments, ex_k, ex_segments,
                   filtered_count, exit_status, exRest>>

\* priority 2: torch reports CUDA and faster_whisper is installed
ExtractCuda ==
    /\ pc = "ex_cuda"
    /\ has_torch /\ cuda_available /\ has_faster_whisper
    /\ RunBackend("cuda", "ex_cpu")
    /\ UNCHANGED <<exEnv, ex_segments, filtered_count, exRest>>

\* import torch fails, CUDA is not available, or the import of
\* faster_whisper raises ImportError
ExtractSkipCuda ==
    /\ pc = "ex_cuda"
    /\ ~(has_torch /\ cuda_available /\ has_faster_whisper)
    /\ pc' = "ex_cpu"
    /\ UNCHANGED <<exEnv, transcribe_calls, raw_segments, ex_k, ex_segments,
                   filtered_count, exit_status, exRest>>

\* priority 3: faster_whisper on the CPU
ExtractCpu ==
    /\ pc = "ex_cpu"
    /\ has_faster_whisper
    /\ RunBackend("cpu", "ex_none")
    /\ UNCHANGED <<exEnv, ex_segments, filtered_count, exRest>>

\* the import of faster_whisper raises ImportError
ExtractSkipCpu ==
    /\ pc = "ex_cpu"
    /\ ~has_faster_whisper
    /\ pc' = "ex_none"
    /\ UNCHANGED <<exEnv, transcribe_calls, raw_segments, ex_k, ex_segments,
                   filtered_count, exit_status, exRest>>

\* no backend: the error is printed and sys.exit(1)
ExtractNoBackend ==
    /\ pc = "ex_none"
    /\ exit_status' = 1
    /\ pc' = "exited"
    /\ UNCHANGED <<exEnv, transcribe_calls, raw_segments, ex_k, ex_segments,
                   filtered_count, exRest>>

\* one iteration of the loop over the backend's segments
ExtractFilter ==
    /\ pc = "ex_filter"
    /\ ex_k <= Len(raw_segments)
    /\ LET s == raw_segments[ex_k]
       IN  IF is_non_speech(prob_of(s), no_speech_threshold)
           THEN /\ filtered_count' = filtered_count + 1
                /\ ex_segments' = ex_segments
           ELSE /\ filtered_count' = filtered_count
                /\ ex_segments' =
                     Append(ex_segments,
                            kept_segment(engine_used, s, word_timestamps))
    /\ ex_k' = ex_k + 1
    /\ UNCHANGED <<pc, exEnv, transcribe_calls, raw_segments, exit_status,
                   exRest>>

\* return segments
ExtractReturn ==
    /\ pc = "ex_filter"
    /\ ex_k > Len(raw_segments)
    /\ pc' = "ex_returned"
    /\ UNCHANGED <<exEnv, transcribe_calls, raw_segments, ex_k, ex_segments,
                   filtered_count, exit_status, exRest>>

NextExtract ==
    \/ ExtractMlx
    \/ ExtractSkipMlx
    \/ ExtractCuda
    \/ ExtractSkipCuda
    \/ ExtractCpu
    \/ ExtractSkipCpu
    \/ ExtractNoBackend
    \/ ExtractFilter
    \/ ExtractReturn

SpecExtract == InitExtract /\ [][NextExtract]_vars

----------------------------------------------------------------------------
(* Properties of translate_subtitles, checked under SpecTranslate *)

IsRequest(e) == e.kind # "sleep"

\* the requests issued, in order
Requests == SelectSeq(events, IsRequest)

\* the outcome of the batch request whose chunk holds text k (1-based)
BatchOutcomeOf(k) ==
    LET e == CHOOSE e \in Range(Requests) :
                /\ e.kind = "batch"
                /\ e.at < k /\ k <= e.at + Len(e.texts)
    IN  e.outcome

\* the outcome of the individual request for text k, "none" if none was
\* issued
SingleOutcomeOf(k) ==
    IF \E e \in Range(Requests) : e.kind = "single" /\ e.at = k - 1
    THEN (CHOOSE e \in Range(Requests) :
             e.kind = "single" /\ e.at = k - 1).outcome
    ELSE "none"

\* what the endpoint outcomes make the result for segment k: its
\* translation when the batch went through or its own request did, else the
\* source text
ResultFor(k) ==
    LET src == strip(segments[k])
    IN  IF BatchOutcomeOf(k) = "ok" \/ SingleOutcomeOf(k) = "ok"
        THEN Tr(src)
        ELSE src

\* C1: translate_subtitles returns, for every pattern of endpoint outcomes
\* (a failed request is an outcome, not an exception that leaves the
\* function), one entry per input segment, entry k being the result for
\* segment k; at the head of the loop there is one entry for each text of
\* the batches done.
C1_OneEntryPerSegment ==
    /\ pc = "tr_returned"
          => /\ Len(translated) = Len(segments)
             /\ \A k \in 1..Len(segments) : translated[k] = ResultFor(k)
    /\ pc = "tr_loop" => Len(translated) = Min(tr_i, Len(segments))
    /\ pc = "tr_single" => Len(translated) = tr_i + tr_j - 1

C1_Witness ==
    /\ pc = "tr_returned"
    /\ Len(segments) = 3
    /\ batch_size = 2
    /\ \E e \in Range(Requests) : e.kind = "batch" /\ e.outcome = "merged"
    /\ \E e \in Range(Requests) : e.kind = "single" /\ e.outcome = "fail"
    /\ \E e \in Range(Requests) : e.kind = "batch" /\ e.outcome = "ok"

\* the positions of a chunk, in order, that hold a text that is not blank
NonBlankPositions(ts) ==
    SelectSeq([j \in 1..Len(ts) |-> j], LAMBDA j : strip(ts[j]) # <<>>)

\* the requests after request p are individual requests for the texts of
\* its chunk at the positions pos, one each and in order, and then comes
\* the next batch or the end
FollowedBySingles(p, pos) ==
    LET R == Requests
        ts == R[p].texts
    IN  /\ \A m \in 1..Len(pos) :
              /\ p + m <= Len(R)
              /\ R[p + m].kind = "single"
              /\ R[p + m].texts = <<ts[pos[m]]>>
              /\ R[p + m].at = R[p].at + pos[m] - 1
        /\ p + Len(pos) + 1 <= Len(R) => R[p + Len(pos) + 1].kind = "batch"

\* the entries of the chunk of request p are the results of the
\* individual requests: the source text where that request failed
EntriesFromSingles(p) ==
    LET ts == Requests[p].texts
        at == Requests[p].at
    IN  \A j \in 1..Len(ts) :
            translated[at + j] =
                IF SingleOutcomeOf(at + j) = "ok" THEN Tr(ts[j]) ELSE ts[j]

\* C3 (as claimed): when the batch request fails or its split response has
\* the wrong length, every item of the chunk is sent as its own request (k
\* items, k requests), and an item whose request fails is output as its
\* source text.
C3_Original ==
    pc = "tr_returned"
    => \A p \in 1..Len(Requests) :
          (Requests[p].kind = "batch" /\ Requests[p].outcome # "ok")
          => /\ FollowedBySingles(p,
                    [j \in 1..Len(Requests[p].texts) |-> j])
             /\ EntriesFromSingles(p)

\* C3 (amended): as claimed, except that only the items that are not blank
\* are sent, one request each; a blank item is output unchanged and no
\* request is issued for it.
C3_PerItemFallback ==
    pc = "tr_returned"
    => \A p \in 1..Len(Requests) :
          (Requests[p].kind = "batch" /\ Requests[p].outcome # "ok")
          => /\ FollowedBySingles(p, NonBlankPositions(Requests[p].texts))
             /\ EntriesFromSingles(p)

C3_Witness ==
    /\ pc = "tr_returned"
    /\ segments = <<(<<" ", "a">>), (<<"b">>), (<<" ">>)>>
    /\ batch_size = 3
    /\ Len(Requests) = 3
    /\ Requests[1].kind = "batch" /\ Requests[1].outcome = "fail"
    /\ Requests[2].outcome = "ok"
    /\ Requests[3].outcome = "fail"
    /\ translated = <<(<<"T", "a">>), (<<"b">>), <<>>>>

\* the positions of the event log that hold a request, in order
RequestPositions ==
    SelectSeq([i \in 1..Len(events) |-> i], LAMBDA i : IsRequest(events[i]))

\* the pairs of positions of requests with no request between them
ConsecutiveRequests ==
    {<<RequestPositions[m], RequestPositions[m + 1]>> :
        m \in 1..(Len(RequestPositions) - 1)}

\* a delay is slept between positions i and j of the log
DelayBetween(i, j) ==
    \E m \in (i + 1)..(j - 1) : events[m].kind = "sleep"

\* the batch request logged at position i was taken as the result
Accepted(i) ==
    /\ events[i].kind = "batch"
    /\ batch_accepted(translate_batch(events[i].texts, events[i].outcome),
                      events[i].texts)

\* the batch request logged at position i fell back to its items
FellBack(i) == events[i].kind = "batch" /\ ~Accepted(i)

\* the first request after position i that is a batch request, 0 if none
NextBatchAfter(i) ==
    LET later == {m \in (i + 1)..Len(events) : events[m].kind = "batch"}
    IN  IF later = {} THEN 0
        ELSE CHOOSE m \in later : \A n \in later : m <= n

\* a delay separates consecutive individual requests, and a batch that fell
\* back from the batch request that follows it
DelaysOfFallback ==
    /\ \A p \in ConsecutiveRequests :
          (events[p[1]].kind = "single" /\ events[p[2]].kind = "single")
          => DelayBetween(p[1], p[2])
    /\ \A i \in Range(RequestPositions) :
          (FellBack(i) /\ NextBatchAfter(i) # 0)
          => DelayBetween(i, NextBatchAfter(i))

\* C20 (as claimed): a delay occurs between consecutive individual fallback
\* requests and after a batch that fell back, and no delay occurs between
\* two consecutive batch requests that were both taken.
C20_Original ==
    /\ DelaysOfFallback
    /\ \A p \in ConsecutiveRequests :
          (Accepted(p[1]) /\ Accepted(p[2])) => ~DelayBetween(p[1], p[2])

\* C20 (amended): a delay occurs between consecutive individual fallback
\* requests and after a batch that fell back, and a delay follows every
\* batch that was taken as well: each individual request is followed at
\* once by the 0.1 s delay, each batch request that was taken by the 0.2 s
\* delay, so two consecutive batch requests are never without a delay
\* between them.
C20_DelayAfterEveryBatch ==
    /\ DelaysOfFallback
    /\ \A i \in Range(RequestPositions) :
          /\ events[i].kind = "single"
                => /\ i < Len(events)
                   /\ events[i + 1].kind = "sleep"
                   /\ events[i + 1].outcome = "100ms"
          /\ Accepted(i)
                => /\ i < Len(events)
                   /\ events[i + 1].kind = "sleep"
                   /\ events[i + 1].outcome = "200ms"
    /\ \A p \in ConsecutiveRequests :
          (events[p[1]].kind = "batch" /\ events[p[2]].kind = "batch")
          => \E m \in (p[1] + 1)..(p[2] - 1) :
                events[m].kind = "sleep" /\ events[m].outcome = "200ms"

C20_Witness ==
    /\ pc = "tr_returned"
    /\ Len(segments) = 3
    /\ batch_size = 1
    /\ Len(Requests) = 4
    /\ FellBack(1)
    /\ \E p \in ConsecutiveRequests : Accepted(p[1]) /\ Accepted(p[2])
    /\ \E i \in Range(RequestPositions) :
          FellBack(i) /\ NextBatchAfter(i) # 0

\* ceil(n / b)
CeilDiv(n, b) == (n + b - 1) \div b

\* the 0-based positions at which the chunks of the texts start
ChunkStarts ==
    {batch_size * c : c \in 0..(CeilDiv(Len(segments), batch_size) - 1)}

\* the requests of a kind issued for position at
RequestsAt(kind, at) ==
    {p \in 1..Len(Requests) :
        Requests[p].kind = kind /\ Requests[p].at = at}

\* every batch request is for a chunk, no chunk is submitted twice, no
\* text is submitted individually twice, and the requests are at most
\* ceil(n/b) + n; once the stage has returned every chunk was submitted
RequestsBounded ==
    /\ \A p \in 1..Len(Requests) :
          /\ Requests[p].kind = "batch" => Requests[p].at \in ChunkStarts
          /\ Requests[p].kind = "single"
                => Requests[p].at \in 0..(Len(segments) - 1)
          /\ Cardinality(RequestsAt(Requests[p].kind, Requests[p].at)) = 1
    /\ Len(Requests)
          <= CeilDiv(Len(segments), batch_size) + Len(segments)
    /\ pc = "tr_returned"
          => \A at \in ChunkStarts : Cardinality(RequestsAt("batch", at)) = 1

\* C21: in one run each chunk is submitted as a batch exactly once and each
\* text is submitted individually at most once, so n texts with batch size
\* b cause at most ceil(n/b) + n requests; and when every request returns
\* or fails, translate_subtitles returns.
C21_NoRetry == []RequestsBounded /\ <>(pc = "tr_returned")

\* every chunk fell back and every text was sent: ceil(n/b) + n requests
C21_Witness ==
    /\ pc = "tr_returned"
    /\ Len(segments) = 3
    /\ batch_size = 2
    /\ Len(Requests) = 5
    /\ \A p \in 1..Len(Requests) : Requests[p].outcome = "fail"

----------------------------------------------------------------------------
(* Properties of extract_subtitles, checked under SpecExtract *)

\* the start of each segment of a sequence, which tells the segments apart
Starts(segs) == [k \in 1..Len(segs) |-> segs[k].start]

NotAboveThreshold(s) ==
    s.no_speech_prob = Absent \/ s.no_speech_prob <= no_speech_threshold

\* C2: whichever backend ran and whatever the threshold, the segments
\* returned are the backend's segments whose no_speech_prob is not above
\* the threshold, in their order, and filtered_count is the number of the
\* others; while the loop runs, no segment kept so far is above the
\* threshold.
C2_FilterExact ==
    /\ pc \in {"ex_filter", "ex_returned"}
          => /\ \A k \in 1..Len(ex_segments) :
                  \E r \in 1..(ex_k - 1) :
                     /\ raw_segments[r].start = ex_segments[k].start
                     /\ NotAboveThreshold(raw_segments[r])
             /\ filtered_count + Len(ex_segments) = ex_k - 1
    /\ pc = "ex_returned"
          => /\ Starts(ex_segments)
                  = Starts(SelectSeq(raw_segments, NotAboveThreshold))
             /\ filtered_count
                  = Len(raw_segments) - Len(ex_segments)

C2_Witness ==
    /\ pc = "ex_returned"
    /\ engine_used = "cuda"
    /\ no_speech_threshold = 1
    /\ Len(raw_segments) = 2
    /\ raw_segments[1].no_speech_prob = 2
    /\ raw_segments[2].no_speech_prob = 1
    /\ Starts(ex_segments) = <<2>>
    /\ filtered_count = 1

\* C22: every transcription call made, whichever backend makes it, has
\* voice-activity-detection filtering enabled with a minimum silence gap of
\* 500 ms.
C22_VadAtEveryBackend ==
    \A i \in 1..Len(transcribe_calls) :
        /\ transcribe_calls[i].vad_filter
        /\ transcribe_calls[i].min_silence_duration_ms = 500

\* C23: at most one backend's transcription call is made in a run, and
\* once a call was made the run is filtering or returning its result or has
\* failed: control never goes on to a weaker backend.
C23_NoWeakerBackend ==
    /\ Len(transcribe_calls) <= 1
    /\ transcribe_calls # <<>>
          => pc \in {"ex_filter", "ex_returned", "raised"}

\* the machine is Apple silicon and mlx_whisper is installed
AppleReady == system = "Darwin" /\ machine = "arm64" /\ has_mlx

\* a CUDA device is usable and faster_whisper is installed
CudaReady == has_torch /\ cuda_available /\ has_faster_whisper

\* the backend the claimed detection order gives
DetectedBackend ==
    IF AppleReady THEN "mlx" ELSE IF CudaReady THEN "cuda" ELSE "cpu"

\* C24: the backend that transcribes is the Apple-silicon one if the
\* machine is Apple silicon and its runtime is installed, otherwise the
\* CUDA one if a CUDA device is usable and its runtime is installed,
\* otherwise the CPU one; and the run exits for want of a backend only if
\* no transcription runtime is installed at all.
C24_DetectionOrder ==
    /\ transcribe_calls # <<>>
          => transcribe_calls[1].engine = DetectedBackend
    /\ pc = "exited" => (~has_mlx /\ ~has_faster_whisper)

----------------------------------------------------------------------------
(* Times and timestamps.  A time in seconds is a whole number of ticks, ten *)
(* to the millisecond, so that a time need not be a whole number of         *)
(* milliseconds; a tie of the decimal rounding is rounded up.               *)

TicksPerSecond == 10 * 1000

RECURSIVE NumDigits(_)
NumDigits(n) == IF n < 10 THEN 1 ELSE 1 + NumDigits(n \div 10)

RECURSIVE Pow10(_)
Pow10(k) == IF k = 0 THEN 1 ELSE 10 * Pow10(k - 1)

Max(a, b) == IF a > b THEN a ELSE b

\* f'{n:0w}' of a non-negative whole number: at least w digits
zero_padded(n, w) ==
    LET width == Max(w, NumDigits(n))
    IN  [k \in 1..width |-> ToString((n \div Pow10(width - k)) % 10)]

\* str(i)
str(i) == zero_padded(i, 1)

\* x in units of unit ticks, rounded to the nearest whole number as the
\* format specifications .3f and .2f round
rounded(x, unit) == (2 * x + unit) \div (2 * unit)

\* format_ts(sec): h, m, s = int(sec // 3600), int(sec % 3600 // 60),
\* sec % 60; f'{h:02}:{m:02}:{s:06.3f}'.replace('.', ',')
format_ts(sec) ==
    LET h == sec \div (3600 * TicksPerSecond)
        m == (sec % (3600 * TicksPerSecond)) \div (60 * TicksPerSecond)
        s == sec % (60 * TicksPerSecond)
        millis == rounded(s, TicksPerSecond \div 1000)
    IN  zero_padded(h, 2) \o <<":">> \o zero_padded(m, 2) \o <<":">>
          \o zero_padded(millis \div 1000, 2) \o <<",">>
          \o zero_padded(millis % 1000, 3)

\* format_ass_ts(sec): f'{h}:{m:02}:{s:05.2f}'
format_ass_ts(sec) ==
    LET h == sec \div (3600 * TicksPerSecond)
        m == (sec % (3600 * TicksPerSecond)) \div (60 * TicksPerSecond)
        s == sec % (60 * TicksPerSecond)
        centis == rounded(s, TicksPerSecond \div 100)
    IN  zero_padded(h, 1) \o <<":">> \o zero_padded(m, 2) \o <<":">>
          \o zero_padded(centis \div 100, 2) \o <<".">>
          \o zero_padded(centis % 100, 2)

\* f"{format_ts(seg['start'])} --> {format_ts(seg['end'])}"
timestamp_line(seg) ==
    format_ts(seg.start) \o <<" ", "-", "-", ">", " ">> \o format_ts(seg.end)

----------------------------------------------------------------------------
(* merge_bilingual and write_srt *)

\* the text of block i
merge_text_target_first(seg, tts, i, co, so) ==
    IF so THEN strip(seg.text)
    ELSE IF co THEN strip(tts[i])
    ELSE strip(tts[i]) \o <<"\n">> \o strip(seg.text)

merge_text(seg, tts, i, co, so) ==
    IF so THEN strip(seg.text)
    ELSE IF co THEN strip(tts[i])
    ELSE strip(seg.text) \o <<"\n">> \o strip(tts[i])

merge_index_from_zero(i) == str(i - 1)

\* 'index': str(i) of "for i, seg in enumerate(segments, 1)"
merge_index(i) == str(i)

\* f"{b['index']}\n{b['timestamp']}\n{b['text']}\n\n" for each block
RECURSIVE write_srt(_)
write_srt(bs) ==
    IF bs = <<>> THEN <<>>
    ELSE bs[1].index \o <<"\n">> \o bs[1].timestamp \o <<"\n">>
           \o bs[1].text \o <<"\n", "\n">> \o write_srt(Tail(bs))

\* the segments given to step 3: segment k starts 1.5 s after segment k - 1
\* and lasts 1.2346 s
InputStart(k) == (k - 1) * 15000
InputEnd(k) == InputStart(k) + 12346

\* the segment dict at position k with the given text and no word timing
PlainSegment(k, text) ==
    [start |-> InputStart(k), end |-> InputEnd(k), text |-> text,
     has_words |-> FALSE, words |-> <<>>]

MergeSegmentSeqs ==
    UNION {{[k \in 1..n |-> PlainSegment(k, f[k])] : f \in [1..n -> RawTexts]} :
              n \in 0..MaxSegs}

\* what translate_subtitles may have returned for one segment
TranslatedTexts == {<<"T", "a">>, <<"T", " ">>, <<>>}

output_name_source_first(co, so, k) ==
    IF so THEN "_source.srt"
    ELSE IF k THEN "_karaoke.ass"
    ELSE IF co THEN "_zh.srt"
    ELSE "_bilingual.srt"

\* main's file name for the flags
output_name(co, so, k) ==
    IF k THEN "_karaoke.ass"
    ELSE IF so THEN "_source.srt"
    ELSE IF co THEN "_zh.srt"
    ELSE "_bilingual.srt"

mgRest == <<system, burnVars, calls, trVars, exVars>>

mgArgs == <<chinese_only, source_only, karaoke, video_exists,
            subtitle_output, sub_segments, translated_texts, argv, returned>>

InitMerge ==
    /\ pc = "mg_loop"
    /\ system = "Linux"
    /\ IdleBurn
    /\ calls = <<>>
    /\ IdleTranslate
    /\ IdleExtract
    /\ chinese_only \in BOOLEAN
    /\ source_only \in BOOLEAN
    /\ karaoke = FALSE
    /\ video_exists = TRUE
    /\ subtitle_output = output_name(chinese_only, source_only, karaoke)
    /\ sub_segments \in MergeSegmentSeqs
    /\ translated_texts \in
          [1..Len(sub_segments) -> TranslatedTexts] \cup {<<>>}
    /\ sub_i = 1
    /\ blocks = <<>>
    /\ srt_content = <<>>
    /\ parsed = <<>>
    /\ ass_events = <<>>
    /\ ass_content = <<>>
    /\ subtitle_written = None
    /\ argv = [NoFlags EXCEPT !.chinese_only = chinese_only,
                              !.source_only = source_only,
                              !.karaoke = karaoke]
    /\ returned = <<>>

\* one iteration of "for i, seg in enumerate(segments, 1)"; reading a
\* translation that is not there raises IndexError
MergeBlock ==
    /\ pc = "mg_loop"
    /\ sub_i <= Len(sub_segments)
    /\ IF ~source_only /\ sub_i > Len(translated_texts)
       THEN /\ pc' = "raised"
            /\ exit_status' = 1
            /\ UNCHANGED <<sub_i, blocks>>
       ELSE /\ blocks' = Append(blocks,
                 [index |-> merge_index(sub_i),
                  timestamp |-> timestamp_line(sub_segments[sub_i]),
                  text |-> merge_text(sub_segments[sub_i], translated_texts,
                                      sub_i, chinese_only, source_only)])
            /\ sub_i' = sub_i + 1
            /\ UNCHANGED <<pc, exit_status>>
    /\ UNCHANGED <<mgArgs, srt_content, parsed, ass_events, ass_content,
                   subtitle_written>>
    /\ UNCHANGED <<system, srt_only, installed_encoders, working_encoders,
                   bit_depth, bitrate_kbps, available_encoders, encoder,
                   encoder_opts, fb_i, invocations, success, output_written,
                   calls, trVars, exVars>>

\* write_srt(blocks, output); return blocks
MergeWrite ==
    /\ pc = "mg_loop"
    /\ sub_i > Len(sub_segments)
    /\ srt_content' = write_srt(blocks)
    /\ subtitle_written' = subtitle_output
    /\ pc' = "mg_returned"
    /\ UNCHANGED <<mgArgs, sub_i, blocks, parsed, ass_events, ass_content>>
    /\ UNCHANGED mgRest

NextMerge ==
    \/ MergeBlock
    \/ MergeWrite

SpecMerge == InitMerge /\ [][NextMerge]_vars

----------------------------------------------------------------------------
(* Properties of merge_bilingual, checked under SpecMerge *)

\* a line of a subtitle: the text without the white space around it
Line(text) == strip(text)

Arrow == <<" ", "-", "-", ">", " ">>

\* the text the claim gives record k
ClaimedText(k) ==
    IF source_only THEN Line(sub_segments[k].text)
    ELSE IF chinese_only THEN Line(translated_texts[k])
    ELSE Line(sub_segments[k].text) \o <<"\n">> \o Line(translated_texts[k])

\* C11: record k (in the order the records are emitted) has the text of its
\* mode, made of the source line of segment k and of translation k (bilingual:
\* source line, newline, translation; source-only: source line; target-only:
\* translation), and the time range of segment k, start before the arrow and
\* end after it; when merge_bilingual returns there is a record for every
\* segment.
C11_RecordOfSegment ==
    /\ pc \in {"mg_loop", "mg_returned"}
          => \A k \in 1..Len(blocks) :
                /\ k <= Len(sub_segments)
                /\ blocks[k].text = ClaimedText(k)
                /\ blocks[k].timestamp
                     = format_ts(sub_segments[k].start) \o Arrow
                         \o format_ts(sub_segments[k].end)
    /\ pc = "mg_returned" => Len(blocks) = Len(sub_segments)

C11_Witness ==
    /\ pc = "mg_returned"
    /\ ~source_only /\ ~chinese_only
    /\ Len(sub_segments) = 2
    /\ sub_segments[2].text = <<" ", "a">>
    /\ translated_texts[2] = <<"T", " ">>
    /\ blocks[2].text = <<"a", "\n", "T">>
    /\ blocks[1].timestamp # blocks[2].timestamp

\* the lines of a written file that come right before a timestamp line
IndexLines(content) ==
    LET lines == split(content, <<"\n">>)
        before == SelectSeq([j \in 1..Len(lines) |-> j],
                            LAMBDA j : /\ j < Len(lines)
                                       /\ Occurrences(lines[j + 1], Arrow) # {})
    IN  [m \in 1..Len(before) |-> lines[before[m]]]

\* C12: the records carry the indices 1, 2, ..., n, the k-th record made and
\* the k-th record written having index k, and when merge_bilingual returns
\* there is exactly one record per segment it was given.
C12_DenseIndices ==
    /\ pc \in {"mg_loop", "mg_returned"}
          => /\ \A k \in 1..Len(blocks) : blocks[k].index = zero_padded(k, 1)
             /\ Len(blocks) = Min(sub_i - 1, Len(sub_segments))
    /\ pc = "mg_returned"
          => /\ Len(blocks) = Len(sub_segments)
             /\ IndexLines(srt_content)
                  = [k \in 1..Len(sub_segments) |-> zero_padded(k, 1)]

C12_Witness ==
    /\ pc = "mg_returned"
    /\ Len(sub_segments) = 3
    /\ IndexLines(srt_content) = <<(<<"1">>), (<<"2">>), (<<"3">>)>>
    /\ blocks[3].index = <<"3">>

----------------------------------------------------------------------------
(* format_ts on times that are not whole milliseconds: merge_bilingual on   *)
(* one segment whose start and end are drawn from times around the turn of  *)
(* a second, a minute and an hour                                           *)

\* the time h:m:s plus frac ticks, in ticks
TimeOf(h, m, s, frac) == ((h * 60 + m) * 60 + s) * TicksPerSecond + frac

\* times a backend may report, below 100 hours
StampTimes ==
    {TimeOf(0, 0, 0, 0), TimeOf(0, 0, 0, 4), TimeOf(0, 0, 1, 2346),
     TimeOf(0, 0, 59, 9994), TimeOf(0, 0, 59, 9996), TimeOf(0, 1, 0, 0),
     TimeOf(0, 59, 59, 9990), TimeOf(0, 59, 59, 9999), TimeOf(1, 0, 0, 1),
     TimeOf(50, 59, 59, 9996)}

StampSegments ==
    {<<[start |-> a, end |-> b, text |-> <<"a">>, has_words |-> FALSE,
        words |-> <<>>]>> : a, b \in StampTimes}

InitStamp ==
    /\ pc = "mg_loop"
    /\ system = "Linux"
    /\ IdleBurn
    /\ calls = <<>>
    /\ IdleTranslate
    /\ IdleExtract
    /\ chinese_only = FALSE
    /\ source_only = TRUE
    /\ karaoke = FALSE
    /\ video_exists = TRUE
    /\ subtitle_output = output_name(chinese_only, source_only, karaoke)
    /\ sub_segments \in StampSegments
    /\ sub_segments[1].start <= sub_segments[1].end
    /\ translated_texts = <<>>
    /\ sub_i = 1
    /\ blocks = <<>>
    /\ srt_content = <<>>
    /\ parsed = <<>>
    /\ ass_events = <<>>
    /\ ass_content = <<>>
    /\ subtitle_written = None
    /\ argv = [NoFlags EXCEPT !.source_only = TRUE]
    /\ returned = <<>>

SpecStamp == InitStamp /\ [][NextMerge]_vars

\* the number a string of decimal digits writes, -1 if it is not one
RECURSIVE NumberOf(_)
NumberOf(ds) ==
    IF ds = <<>> THEN 0
    ELSE LET d == {n \in 0..9 : ToString(n) = ds[Len(ds)]}
             high == NumberOf(SubSeq(ds, 1, Len(ds) - 1))
         IN  IF d = {} \/ high < 0 THEN -1
             ELSE 10 * high + (CHOOSE n \in d : TRUE)

\* HH:MM:SS,mmm with minutes and seconds in 00..59
WellFormedStamp(ts) ==
    /\ Len(ts) = 12
    /\ ts[3] = ":" /\ ts[6] = ":" /\ ts[9] = ","
    /\ NumberOf(SubSeq(ts, 1, 2)) \in 0..99
    /\ NumberOf(SubSeq(ts, 4, 5)) \in 0..59
    /\ NumberOf(SubSeq(ts, 7, 8)) \in 0..59
    /\ NumberOf(SubSeq(ts, 10, 12)) \in 0..999

\* C26: every timestamp format_ts yields for a time below 100 hours, a
\* whole number of milliseconds or not, is a well-formed HH:MM:SS,mmm with
\* minutes and seconds in 00..59 and milliseconds in 000..999.
C26_WellFormedTimestamps ==
    \A k \in 1..Len(blocks) :
        /\ WellFormedStamp(format_ts(sub_segments[k].start))
        /\ WellFormedStamp(format_ts(sub_segments[k].end))
        /\ blocks[k].timestamp
             = format_ts(sub_segments[k].start) \o Arrow
                 \o format_ts(sub_segments[k].end)

----------------------------------------------------------------------------
(* write_srt followed by parse_srt *)

\* the end of the run of newlines that starts at position i of s
RECURSIVE run_end(_, _)
run_end(s, i) ==
    IF i < Len(s) /\ s[i + 1] = "\n" THEN run_end(s, i + 1) ELSE i

\* re.split(r'\n\n+', s)
RECURSIVE re_split_blank_lines(_)
re_split_blank_lines(s) ==
    LET occ == Occurrences(s, <<"\n", "\n">>)
    IN  IF occ = {} THEN <<s>>
        ELSE LET i == CHOOSE x \in occ : \A y \in occ : x <= y
             IN  <<SubSeq(s, 1, i - 1)>>
                    \o re_split_blank_lines(
                           SubSeq(s, run_end(s, i) + 1, Len(s)))

parse_block_two_lines(block) ==
    LET lines == split(block, <<"\n">>)
    IN  IF Len(lines) >= 2
        THEN <<[index |-> lines[1], timestamp |-> lines[2],
                text |-> join(<<"\n">>, SubSeq(lines, 3, Len(lines)))]>>
        ELSE <<>>

\* lines = block.split('\n'); the block is taken if len(lines) >= 3
parse_block(block) ==
    LET lines == split(block, <<"\n">>)
    IN  IF Len(lines) >= 3
        THEN <<[index |-> lines[1], timestamp |-> lines[2],
                text |-> join(<<"\n">>, SubSeq(lines, 3, Len(lines)))]>>
        ELSE <<>>

RECURSIVE parse_blocks(_)
parse_blocks(bs) ==
    IF bs = <<>> THEN <<>>
    ELSE parse_block(bs[1]) \o parse_blocks(Tail(bs))

\* parse_srt(content)
parse_srt(content) == parse_blocks(re_split_blank_lines(strip(content)))

\* the texts of the records given to write_srt
SrtTexts ==
    {<<>>, <<"a">>, <<"a", "\n", "a">>, <<"a", "\n", "\n", "a">>,
     <<"\n", "a">>, <<"a", "\n">>, <<" ", "a">>, <<"a", " ">>, <<" ">>}

\* the timestamp line of record k: a time range of its own
SrtTimestamps ==
    [k \in 1..MaxBlocks |-> timestamp_line(PlainSegment(k, <<>>))]

\* record k of a sequence
SrtRecord(k, text) ==
    [index |-> str(k), timestamp |-> SrtTimestamps[k], text |-> text]

SrtBlockSeqs ==
    UNION {{[k \in 1..n |-> SrtRecord(k, f[k])] : f \in [1..n -> SrtTexts]} :
              n \in 0..MaxBlocks}

srtFixed == <<chinese_only, source_only, karaoke, video_exists,
              subtitle_output, sub_segments, translated_texts, sub_i,
              ass_events, ass_content, argv, returned>>

InitSrt ==
    /\ pc = "srt_write"
    /\ system = "Linux"
    /\ IdleBurn
    /\ calls = <<>>
    /\ IdleTranslate
    /\ IdleExtract
    /\ chinese_only = FALSE
    /\ source_only = FALSE
    /\ karaoke = FALSE
    /\ video_exists = TRUE
    /\ subtitle_output = "_bilingual.srt"
    /\ sub_segments = <<>>
    /\ translated_texts = <<>>
    /\ sub_i = 0
    /\ blocks \in SrtBlockSeqs
    /\ srt_content = <<>>
    /\ parsed = <<>>
    /\ ass_events = <<>>
    /\ ass_content = <<>>
    /\ subtitle_written = None
    /\ argv = [NoFlags EXCEPT !.chinese_only = chinese_only,
                              !.source_only = source_only,
                              !.karaoke = karaoke]
    /\ returned = <<>>

\* write_srt(blocks, output)
SrtWrite ==
    /\ pc = "srt_write"
    /\ srt_content' = write_srt(blocks)
    /\ subtitle_written' = subtitle_output
    /\ pc' = "srt_parse"
    /\ UNCHANGED <<srtFixed, blocks, parsed>>
    /\ UNCHANGED mgRest

\* parse_srt on the content of the file
SrtParse ==
    /\ pc = "srt_parse"
    /\ parsed' = parse_srt(srt_content)
    /\ pc' = "srt_done"
    /\ UNCHANGED <<srtFixed, blocks, srt_content, subtitle_written>>
    /\ UNCHANGED mgRest

NextSrt ==
    \/ SrtWrite
    \/ SrtParse

SpecSrt == InitSrt /\ [][NextSrt]_vars

\* every line of the text has something in it: the text is not empty and
\* has no empty line
NoEmptyLine(text) ==
    \A j \in 1..Len(split(text, <<"\n">>)) : split(text, <<"\n">>)[j] # <<>>

\* the records a parse gives back as they are
RoundTrips(bs) ==
    /\ \A k \in 1..Len(bs) : NoEmptyLine(bs[k].text)
    /\ bs # <<>> => ~IsSpace(bs[Len(bs)].text[Len(bs[Len(bs)].text)])

\* C13 (as claimed): the records parsed from what write_srt wrote are the
\* records written: as many, with the same index, timestamp and text at
\* each position.
C13_Original == pc = "srt_done" => parsed = blocks

\* C13 (amended): the records parsed from what write_srt wrote are the
\* records written exactly when every text is made of lines that are not
\* empty and the last text does not end in white space; a text that is
\* empty or has an empty line loses or splits its record.
C13_RoundTrip == pc = "srt_done" => (parsed = blocks <=> RoundTrips(blocks))

C13_Witness ==
    /\ pc = "srt_done"
    /\ Len(blocks) = 2
    /\ blocks[1].text = <<"a", "\n", "a">>
    /\ blocks[2].text = <<" ", "a">>
    /\ parsed = blocks

----------------------------------------------------------------------------
(* generate_karaoke_ass *)

\* int(x) of x hundredths of a tick-second: the whole part, towards zero
truncated(x, unit) == IF x >= 0 THEN x \div unit ELSE -((-x) \div unit)

\* duration_cs = int((word['end'] - word['start']) * 100).  The times are
\* binary floating point numbers: when the product is a whole number k > 0
\* of hundredths in decimal arithmetic, the product computed is k or a
\* little less than k, and int gives k or k - 1
duration_cs(word) ==
    LET d == word.end - word.start
        unit == TicksPerSecond \div 100
    IN  IF d > 0 /\ d % unit = 0
        THEN {d \div unit, d \div unit - 1}
        ELSE {truncated(d, unit)}

\* the durations the words of a segment can get, word by word
RECURSIVE DurationSeqs(_)
DurationSeqs(words) ==
    IF words = <<>> THEN {<<>>}
    ELSE {<<d>> \o r : d \in duration_cs(words[1]),
                       r \in DurationSeqs(Tail(words))}

has_word_timing_key_only(seg) == seg.has_words

\* if 'words' in seg and seg['words']
has_word_timing(seg) == seg.has_words /\ seg.words # <<>>

\* the event of a segment: "Dialogue: 0,start,end,Default,,0,0,0,," and then
\* either one {\kf duration}word per word or the stripped text
karaoke_event(seg, ds) ==
    IF has_word_timing(seg)
    THEN [start_ts |-> format_ass_ts(seg.start),
          end_ts |-> format_ass_ts(seg.end),
          directives |-> [j \in 1..Len(seg.words) |->
                             [kf |-> ds[j], word |-> seg.words[j].word]],
          text |-> <<>>]
    ELSE [start_ts |-> format_ass_ts(seg.start),
          end_ts |-> format_ass_ts(seg.end),
          directives |-> <<>>,
          text |-> strip(seg.text)]

\* the word timings a backend gives for a segment that starts at t: none,
\* one word of 0.1 s, or two words of 0.256 s and 0.9786 s
WordTimings(t) ==
    {<<>>,
     <<[word |-> <<"x">>, start |-> t + 2000, end |-> t + 3000]>>,
     <<[word |-> <<"x">>, start |-> t, end |-> t + 2560],
       [word |-> <<" ", "y">>, start |-> t + 2560, end |-> t + 12346]>>}

\* seg['text'] of the segments given to generate_karaoke_ass
KaraokeTexts == {<<" ", "a">>, <<"b">>}

\* the segment dicts at position k: without the key words, or with it
KaraokeSegments(k) ==
    {PlainSegment(k, text) : text \in KaraokeTexts}
      \cup {[PlainSegment(k, text) EXCEPT !.has_words = TRUE, !.words = w] :
               text \in KaraokeTexts, w \in WordTimings(InputStart(k))}

\* the sequences of n segment dicts
RECURSIVE KaraokeSeqsOfLen(_)
KaraokeSeqsOfLen(n) ==
    IF n = 0 THEN {<<>>}
    ELSE {Append(p, seg) : p \in KaraokeSeqsOfLen(n - 1),
                           seg \in KaraokeSegments(n)}

KaraokeSegmentSeqs == UNION {KaraokeSeqsOfLen(n) : n \in 0..MaxSegs}

InitKaraoke ==
    /\ pc = "ka_loop"
    /\ system = "Linux"
    /\ IdleBurn
    /\ calls = <<>>
    /\ IdleTranslate
    /\ IdleExtract
    /\ chinese_only = FALSE
    /\ source_only = TRUE
    /\ karaoke = TRUE
    /\ video_exists = TRUE
    /\ subtitle_output = output_name(chinese_only, source_only, karaoke)
    /\ sub_segments \in KaraokeSegmentSeqs
    /\ translated_texts = <<>>
    /\ sub_i = 1
    /\ blocks = <<>>
    /\ srt_content = <<>>
    /\ parsed = <<>>
    /\ ass_events = <<>>
    /\ ass_content = <<>>
    /\ subtitle_written = None
    /\ argv = [NoFlags EXCEPT !.chinese_only = chinese_only,
                              !.source_only = source_only,
                              !.karaoke = karaoke]
    /\ returned = <<>>

\* one iteration of "for seg in segments"
KaraokeEvent ==
    /\ pc = "ka_loop"
    /\ sub_i <= Len(sub_segments)
    /\ \E ds \in DurationSeqs(sub_segments[sub_i].words) :
          ass_events' = Append(ass_events,
                               karaoke_event(sub_segments[sub_i], ds))
    /\ sub_i' = sub_i + 1
    /\ UNCHANGED <<pc, mgArgs, blocks, srt_content, parsed, ass_content,
                   subtitle_written>>
    /\ UNCHANGED mgRest

\* the header and '\n'.join(events) are written to the file
KaraokeWrite ==
    /\ pc = "ka_loop"
    /\ sub_i > Len(sub_segments)
    /\ ass_content' = ass_events
    /\ subtitle_written' = subtitle_output
    /\ pc' = "ka_returned"
    /\ UNCHANGED <<mgArgs, sub_i, blocks, srt_content, parsed, ass_events>>
    /\ UNCHANGED mgRest

NextKaraoke ==
    \/ KaraokeEvent
    \/ KaraokeWrite

SpecKaraoke == InitKaraoke /\ [][NextKaraoke]_vars

----------------------------------------------------------------------------
(* Properties of generate_karaoke_ass, checked under SpecKaraoke *)

\* C14: the duration of every highlight directive is the duration of its
\* word in hundredths of a second, rounded to the nearest whole number.
C14_RoundedDuration ==
    pc \in {"ka_loop", "ka_returned"}
    => \A k \in 1..Len(ass_events) :
          \A j \in 1..Len(ass_events[k].directives) :
             ass_events[k].directives[j].kf
                = rounded(sub_segments[k].words[j].end
                             - sub_segments[k].words[j].start,
                          TicksPerSecond \div 100)

\* event k is the event of segment k, and the file holds the events
EventsOfSegments ==
    /\ pc \in {"ka_loop", "ka_returned"}
          => /\ Len(ass_events) = Min(sub_i - 1, Len(sub_segments))
             /\ \A k \in 1..Len(ass_events) :
                  LET seg == sub_segments[k]
                      ev == ass_events[k]
                  IN  /\ ev.start_ts = format_ass_ts(seg.start)
                      /\ ev.end_ts = format_ass_ts(seg.end)
                      /\ (seg.has_words /\ Len(seg.words) > 0)
                           => /\ Len(ev.directives) = Len(seg.words)
                              /\ \A j \in 1..Len(seg.words) :
                                    ev.directives[j].word = seg.words[j].word
                              /\ ev.text = <<>>
                      /\ (~seg.has_words \/ Len(seg.words) = 0)
                           => /\ ev.directives = <<>>
                              /\ ev.text = strip(seg.text)
    /\ pc = "ka_returned"
          => /\ Len(ass_content) = Len(sub_segments)
             /\ ass_content = ass_events

\* C15: the track written holds one event per segment, event k for segment
\* k with its time range; a segment with word timing has one highlight
\* directive per word, in word order, and a segment without the key words
\* or with no word in it has a plain event with the segment's text; an
\* event, once made, is not changed by the segments that follow.
C15_EventPerSegment ==
    /\ []EventsOfSegments
    /\ [][\A k \in 1..Len(ass_events) :
             k <= Len(ass_events') /\ ass_events'[k] = ass_events[k]]_vars

C15_Witness ==
    /\ pc = "ka_returned"
    /\ Len(sub_segments) = 3
    /\ Len(ass_content[1].directives) = 2
    /\ sub_segments[2].has_words /\ sub_segments[2].words = <<>>
    /\ ass_content[2].directives = <<>>
    /\ ass_content[2].text = <<"a">>
    /\ ~sub_segments[3].has_words
    /\ ass_content[3].text = <<"b">>

----------------------------------------------------------------------------
(* main: the flags, then the four steps one after another *)

flags_conflict_unless_karaoke(co, so) == co /\ so /\ ~karaoke

\* if args.chinese_only and args.source_only
flags_conflict(co, so) == co /\ so

input_missing_ignored(exists) == FALSE

\* if not os.path.exists(args.video)
input_missing(exists) == ~exists

\* args.source_only after "if args.karaoke and (args.chinese_only or not
\* args.source_only and not args.chinese_only)"
forced_source_only(co, so, k) ==
    IF k /\ (co \/ (~so /\ ~co)) THEN TRUE ELSE so

\* batch_size=10 of translate_subtitles, which main does not pass
DefaultBatchSize == 10

skips_translation_always(so, k) == TRUE

\* if args.source_only or args.karaoke: step 2 is skipped
skips_translation(so, k) == so \/ k

step_after_translation_no_assembly(k) == "main_step4"

\* step 3 is generate_karaoke_ass if args.karaoke, else merge_bilingual
step_after_translation(k) == IF k THEN "ka_loop" ELSE "mg_loop"

\* the texts of the segments a backend returns, by their place
SegmentTexts == <<(<<" ", "a">>), (<<"b">>), (<<" ">>), (<<"a">>)>>

TextOf(k) == SegmentTexts[((k - 1) % Len(SegmentTexts)) + 1]

\* the segment dict main holds for a segment extract_subtitles returned
main_segment(s) ==
    [start |-> InputStart(s.start), end |-> InputEnd(s.start),
     text |-> TextOf(s.start), has_words |-> s.words,
     words |-> IF s.words
               THEN <<[word |-> <<"x">>, start |-> InputStart(s.start),
                       end |-> InputStart(s.start) + 2560]>>
               ELSE <<>>]

\* the machines of the modelled runs: Apple Silicon with mlx-whisper and
\* faster-whisper, a CUDA machine, a machine with faster-whisper and no
\* torch, and a machine with no backend
MainEnvironments ==
    {[system |-> "Darwin", machine |-> "arm64", mlx |-> TRUE,
      torch |-> FALSE, fw |-> TRUE],
     [system |-> "Linux", machine |-> "x86_64", mlx |-> FALSE,
      torch |-> TRUE, fw |-> TRUE],
     [system |-> "Windows", machine |-> "AMD64", mlx |-> FALSE,
      torch |-> FALSE, fw |-> TRUE],
     [system |-> "Linux", machine |-> "x86_64", mlx |-> FALSE,
      torch |-> FALSE, fw |-> FALSE]}

\* the encoders of the modelled runs
MainEncoders == {"h264_nvenc", "libx264"}

Flags == [chinese_only : BOOLEAN, source_only : BOOLEAN, karaoke : BOOLEAN,
          srt_only : BOOLEAN]

InitMain ==
    /\ pc = "main_validate"
    /\ argv \in Flags
    /\ chinese_only = argv.chinese_only
    /\ source_only = argv.source_only
    /\ karaoke = argv.karaoke
    /\ srt_only = argv.srt_only
    /\ video_exists \in BOOLEAN
    /\ \E env \in MainEnvironments :
          /\ system = env.system
          /\ machine = env.machine
          /\ has_mlx = env.mlx
          /\ has_torch = env.torch
          /\ cuda_available = env.torch
          /\ has_faster_whisper = env.fw
    /\ installed_encoders = MainEncoders
    /\ working_encoders \in SUBSET installed_encoders
    /\ bit_depth = 8
    /\ bitrate_kbps = DefaultKbps
    /\ available_encoders = {}
    /\ encoder = NotYet
    /\ encoder_opts = NoOpts
    /\ fb_i = 0
    /\ invocations = <<>>
    /\ success = FALSE
    /\ output_written = FALSE
    /\ exit_status = -1
    /\ calls = <<>>
    /\ IdleTranslate
    /\ word_timestamps = FALSE
    /\ no_speech_threshold = 2
    /\ transcribe_calls = <<>>
    /\ raw_segments = <<>>
    /\ ex_k = 0
    /\ ex_segments = <<>>
    /\ filtered_count = 0
    /\ subtitle_output = None
    /\ sub_segments = <<>>
    /\ translated_texts = <<>>
    /\ sub_i = 0
    /\ blocks = <<>>
    /\ srt_content = <<>>
    /\ parsed = <<>>
    /\ ass_events = <<>>
    /\ ass_content = <<>>
    /\ subtitle_written = None
    /\ returned = <<>>

burnNoExit == <<srt_only, installed_encoders, working_encoders, bit_depth,
                bitrate_kbps, available_encoders, encoder, encoder_opts,
                fb_i, invocations, success, output_written>>

subFiles == <<blocks, srt_content, parsed, ass_events, ass_content,
              subtitle_written>>

\* both output-mode flags are set: return 1
MainConflictingFlags ==
    /\ pc = "main_validate"
    /\ flags_conflict(chinese_only, source_only)
    /\ exit_status' = 1
    /\ pc' = "main_exit"
    /\ UNCHANGED <<system, burnNoExit, calls, trVars, exVars, subVars>>

\* the input video does not exist: return 1
MainMissingInput ==
    /\ pc = "main_validate"
    /\ ~flags_conflict(chinese_only, source_only)
    /\ source_only' = forced_source_only(chinese_only, source_only, karaoke)
    /\ input_missing(video_exists)
    /\ exit_status' = 1
    /\ pc' = "main_exit"
    /\ UNCHANGED <<system, burnNoExit, calls, trVars, exVars>>
    /\ UNCHANGED <<chinese_only, karaoke, video_exists, subtitle_output,
                   sub_segments, translated_texts, sub_i, subFiles, argv,
                   returned>>

\* the flags are accepted and the input exists: the output paths are set
\* and extract_subtitles is called with word_timestamps=args.karaoke
MainStart ==
    /\ pc = "main_validate"
    /\ ~flags_conflict(chinese_only, source_only)
    /\ source_only' = forced_source_only(chinese_only, source_only, karaoke)
    /\ ~input_missing(video_exists)
    /\ subtitle_output' = output_name(chinese_only, source_only', karaoke)
    /\ word_timestamps' = karaoke
    /\ pc' = "ex_apple"
    /\ UNCHANGED <<system, burnVars, calls, trVars>>
    /\ UNCHANGED <<machine, has_mlx, has_torch, cuda_available,
                   has_faster_whisper, no_speech_threshold, transcribe_calls,
                   raw_segments, ex_k, ex_segments, filtered_count>>
    /\ UNCHANGED <<chinese_only, karaoke, video_exists, sub_segments,
                   translated_texts, sub_i, subFiles, argv, returned>>

\* extract_subtitles has returned its segments (its other locals end with
\* the call); step 2 is skipped with translated = [], or translate_subtitles
\* is called
MainAfterExtract ==
    /\ pc = "ex_returned"
    /\ sub_segments' = [k \in 1..Len(ex_segments) |->
                           main_segment(ex_segments[k])]
    /\ raw_segments' = <<>>
    /\ ex_k' = 0
    /\ ex_segments' = <<>>
    /\ filtered_count' = 0
    /\ returned' = Append(returned, "extract_subtitles")
    /\ sub_i' = 1
    /\ IF skips_translation(source_only, karaoke)
       THEN /\ translated_texts' = <<>>
            /\ pc' = step_after_translation(karaoke)
            /\ UNCHANGED <<segments, batch_size>>
       ELSE /\ segments' = [k \in 1..Len(ex_segments) |->
                               main_segment(ex_segments[k]).text]
            /\ batch_size' = DefaultBatchSize
            /\ pc' = "tr_enter"
            /\ UNCHANGED translated_texts
    /\ UNCHANGED <<system, burnVars, calls, texts, translated, tr_i, batch,
                   result, tr_j, events>>
    /\ UNCHANGED <<exEnv, transcribe_calls>>
    /\ UNCHANGED <<chinese_only, source_only, karaoke, video_exists,
                   subtitle_output, subFiles, argv>>

\* translate_subtitles has returned: step 3
MainAfterTranslate ==
    /\ pc = "tr_returned"
    /\ translated_texts' = translated
    /\ returned' = Append(returned, "translate_subtitles")
    /\ pc' = step_after_translation(karaoke)
    /\ UNCHANGED <<system, burnVars, calls, trVars, exVars>>
    /\ UNCHANGED <<chinese_only, source_only, karaoke, video_exists,
                   subtitle_output, sub_segments, sub_i, subFiles, argv>>

\* step 3 has returned: step 4
MainAfterSubtitle ==
    /\ pc \in {"mg_returned", "ka_returned"}
    /\ returned' = Append(returned,
                          IF pc = "ka_returned" THEN "generate_karaoke_ass"
                          ELSE "merge_bilingual")
    /\ pc' = "main_step4"
    /\ UNCHANGED <<system, burnVars, calls, trVars, exVars>>
    /\ UNCHANGED <<chinese_only, source_only, karaoke, video_exists,
                   subtitle_output, sub_segments, translated_texts, sub_i,
                   subFiles, argv>>

NextMain ==
    \/ MainConflictingFlags
    \/ MainMissingInput
    \/ MainStart
    \/ NextExtract
    \/ MainAfterExtract
    \/ NextTranslate
    \/ MainAfterTranslate
    \/ NextMerge
    \/ NextKaraoke
    \/ MainAfterSubtitle
    \/ NextBurn

SpecMain == InitMain /\ [][NextMain]_vars

----------------------------------------------------------------------------
(* Properties of main, checked under SpecMain *)

\* both output-mode flags were given on the command line
ConflictGiven == argv.chinese_only /\ argv.source_only

HasReturned(f) == f \in Range(returned)

\* no stage has done anything
NothingStarted ==
    /\ transcribe_calls = <<>>
    /\ events = <<>>
    /\ blocks = <<>> /\ ass_events = <<>>
    /\ subtitle_written = None
    /\ encoder = NotYet /\ available_encoders = {}
    /\ invocations = <<>>
    /\ ~output_written
    /\ returned = <<>>

\* C16: in a run given both --chinese-only and --source-only, or an input
\* video that does not exist, main returns 1 straight from the checks:
\* control is never in a stage, no transcription is started, no translation
\* request is issued, no subtitle file is written and no encoder is probed
\* or invoked.
C16_RejectedBeforeStages ==
    (ConflictGiven \/ ~video_exists)
    => /\ pc \in {"main_validate", "main_exit"}
       /\ NothingStarted
       /\ pc = "main_exit" => exit_status = 1

C16_Witness ==
    /\ pc = "main_exit"
    /\ ConflictGiven
    /\ argv.karaoke
    /\ video_exists
    /\ working_encoders # {}
    /\ exit_status = 1

\* the run is over: main returned, sys.exit was called, or an exception
\* left main
Terminal == pc \in {"main_exit", "exited", "raised"}

\* C17: when the run is over its status is 0 or 1, and it is 0 exactly when
\* the flags were consistent, the input existed, extract_subtitles returned
\* its segments, and either --srt-only was given or some encode invocation
\* exited with 0; with --srt-only no encoder is listed or invoked, so the
\* status does not depend on them.  While the run goes on there is no
\* status.
C17_ExitStatus ==
    /\ Terminal
          => /\ exit_status \in {0, 1}
             /\ exit_status = 0
                  <=> /\ ~ConflictGiven
                      /\ video_exists
                      /\ HasReturned("extract_subtitles")
                      /\ \/ argv.srt_only
                         \/ \E i \in 1..Len(invocations) :
                               invocations[i].rc = 0
    /\ ~Terminal => exit_status = -1
    /\ argv.srt_only
          => encoder = NotYet /\ available_encoders = {} /\ invocations = <<>>

C17_Witness ==
    /\ pc = "main_exit"
    /\ exit_status = 0
    /\ ~argv.srt_only
    /\ Len(invocations) = 2
    /\ invocations[1].rc = 1

\* C18: in a run with --karaoke whose flags are accepted (--karaoke alone,
\* with --chinese-only or with --source-only), every transcribe call asks
\* for word timestamps, no translation request is issued, and the file
\* written by step 3 is the karaoke track, named _karaoke.ass; in a run with
\* --source-only and without --karaoke no translation request is issued
\* either.
C18_KaraokePrecedence ==
    /\ (argv.karaoke /\ ~ConflictGiven)
          => /\ \A i \in 1..Len(transcribe_calls) :
                   transcribe_calls[i].word_timestamps
             /\ HasReturned("extract_subtitles") => transcribe_calls # <<>>
             /\ events = <<>>
             /\ ~HasReturned("translate_subtitles")
             /\ ~HasReturned("merge_bilingual")
             /\ blocks = <<>>
             /\ subtitle_written \in {None, "_karaoke.ass"}
             /\ HasReturned("generate_karaoke_ass")
                   => /\ subtitle_written = "_karaoke.ass"
                      /\ Len(ass_content) = Len(sub_segments)
             /\ pc = "main_exit" /\ exit_status = 0
                   => HasReturned("generate_karaoke_ass")
    /\ (argv.source_only /\ ~argv.karaoke /\ ~ConflictGiven)
          => events = <<>> /\ ~HasReturned("translate_subtitles")

C18_Witness ==
    /\ pc = "main_exit"
    /\ exit_status = 0
    /\ argv.karaoke /\ argv.chinese_only
    /\ subtitle_written = "_karaoke.ass"
    /\ Len(ass_content) = 2
    /\ Len(ass_content[1].directives) = 1

ExtractPcs == {"ex_apple", "ex_cuda", "ex_cpu", "ex_none", "ex_filter"}
TranslatePcs == {"tr_enter", "tr_loop", "tr_single"}
SubtitlePcs == {"mg_loop", "ka_loop"}
BurnPcs == {"main_step4", "burn_probe", "burn_encode", "burn_fallback"}

\* the functions of step 3
Step3 == {"merge_bilingual", "generate_karaoke_ass"}

\* the orders in which the steps can have returned
StepOrders ==
    {<<>>, <<"extract_subtitles">>}
      \cup {<<"extract_subtitles", f>> : f \in Step3}
      \cup {<<"extract_subtitles", "translate_subtitles">>}
      \cup {<<"extract_subtitles", "translate_subtitles", f>> : f \in Step3}

\* C19: the steps run one after another in the order transcription,
\* translation, subtitle file, encode.  A transcribe call is made only
\* while control is in extract_subtitles; a translation request is issued
\* only while control is in translate_subtitles, after extract_subtitles
\* returned; the subtitle file is built and written only while control is
\* in step 3, after the steps before it returned; the encoders are listed
\* and an encode is invoked only while control is in step 4, after step 3
\* returned with the file written.
C19_StagesInOrder ==
    /\ [](/\ returned \in StepOrders
          /\ (invocations # <<>> \/ encoder # NotYet)
                => /\ subtitle_written # None
                   /\ \E f \in Step3 : HasReturned(f)
          /\ events # <<>> => HasReturned("extract_subtitles")
          /\ pc \in TranslatePcs => HasReturned("extract_subtitles")
          /\ pc \in SubtitlePcs
                => /\ HasReturned("extract_subtitles")
                   /\ events # <<>> => HasReturned("translate_subtitles")
          /\ pc \in BurnPcs => \E f \in Step3 : HasReturned(f))
    /\ [][/\ transcribe_calls' # transcribe_calls => pc \in ExtractPcs
          /\ events' # events => pc \in TranslatePcs
          /\ (blocks' # blocks \/ ass_events' # ass_events
                \/ subtitle_written' # subtitle_written)
                => pc \in SubtitlePcs
          /\ (invocations' # invocations \/ encoder' # encoder
                \/ available_encoders' # available_encoders)
                => pc \in BurnPcs]_vars

C19_Witness ==
    /\ pc = "burn_fallback"
    /\ returned = <<"extract_subtitles", "translate_subtitles",
                    "merge_bilingual">>
    /\ Len(transcribe_calls) = 2
    /\ Len(Requests) = 3
    /\ subtitle_written = "_zh.srt"
    /\ Len(invocations) = 1

\* the next iteration of the loop of merge_bilingual reads
\* translated_texts[i-1]: the mode is neither source-only nor karaoke
ReadsTranslation ==
    pc = "mg_loop" /\ sub_i <= Len(sub_segments) /\ ~source_only

\* whenever a translation is read the run is in bilingual or target-only
\* mode, translate_subtitles has returned and there is one translation per
\* segment; in source-only and karaoke modes step 3 holds the empty
\* translation sequence and does not read it
ReadsAligned ==
    /\ ReadsTranslation
          => /\ ~argv.source_only /\ ~argv.karaoke
             /\ HasReturned("translate_subtitles")
             /\ Len(translated_texts) = Len(sub_segments)
    /\ (pc \in SubtitlePcs /\ (argv.source_only \/ argv.karaoke))
          => /\ translated_texts = <<>>
             /\ ~HasReturned("translate_subtitles")
             /\ ~ReadsTranslation

\* C29: in every run that reaches step 3 the translations are read only in
\* bilingual and target-only modes, where there are exactly as many as
\* segments, and never in source-only and karaoke modes, where the sequence
\* is empty; no iteration of merge_bilingual raises for a missing
\* translation.
C29_TranslationsAligned ==
    /\ []ReadsAligned
    /\ [][pc = "mg_loop" => pc' # "raised"]_vars

C29_Witness ==
    /\ pc = "mg_returned"
    /\ argv.chinese_only /\ ~argv.karaoke
    /\ Len(sub_segments) = 2
    /\ Len(translated_texts) = 2
    /\ Len(blocks) = 2
    /\ blocks[2].text = strip(translated_texts[2])

====
